---- MODULE Spec2Model ----
(***************************************************************************)
(* A model of the web crawler of challenge/crawler/crawler.py and of the   *)
(* URL canonicalisation of challenge/utils/url_utils.py.                   *)
(*                                                                         *)
(* Python strings are sequences of one-character strings, so that every    *)
(* string operation of the source (startswith, endswith, replace, slicing, *)
(* concatenation, urlparse) is computed character by character.            *)
(* Optional values (None or a value) are sequences of length 0 or 1.       *)
(***************************************************************************)
EXTENDS Integers, Sequences, FiniteSets, TLC

None == <<>>
Some(x) == <<x>>

\* Op(v), with v evaluated once and bound (a LET whose value is not
\* recomputed at each use)
With(v, Op(_)) == CHOOSE r \in {Op(x) : x \in {v}} : TRUE

\* ------------------------------------------------------------------------
\* String helpers (Python str methods)
\* ------------------------------------------------------------------------

StartsWith(s, p) == Len(s) >= Len(p) /\ SubSeq(s, 1, Len(p)) = p

EndsWith(s, p) == Len(s) >= Len(p) /\ SubSeq(s, Len(s) - Len(p) + 1, Len(s)) = p

\* sub in s
Contains(s, sub) ==
  \E i \in 1..(Len(s) - Len(sub) + 1) : SubSeq(s, i, i + Len(sub) - 1) = sub

\* s[i:] with a 0-based Python index i
From(s, i) == SubSeq(s, i + 1, Len(s))

Range(s) == {s[i] : i \in 1..Len(s)}

\* s.find(c, start) for a one-character c, 0-based; -1 when absent
Find(s, c, start) ==
  LET hits == {i \in (start + 1)..Len(s) : s[i] = c}
  IN  IF hits = {} THEN -1
      ELSE (CHOOSE i \in hits : \A j \in hits : i <= j) - 1

LowerLetters ==
  {"a","b","c","d","e","f","g","h","i","j","k","l","m",
   "n","o","p","q","r","s","t","u","v","w","x","y","z"}

UpperLetters ==
  {"A","B","C","D","E","F","G","H","I","J","K","L","M",
   "N","O","P","Q","R","S","T","U","V","W","X","Y","Z"}

Digits == {"0","1","2","3","4","5","6","7","8","9"}

LowerOf ==
  [c \in UpperLetters |->
     CASE c = "A" -> "a" [] c = "B" -> "b" [] c = "C" -> "c" [] c = "D" -> "d"
       [] c = "E" -> "e" [] c = "F" -> "f" [] c = "G" -> "g" [] c = "H" -> "h"
       [] c = "I" -> "i" [] c = "J" -> "j" [] c = "K" -> "k" [] c = "L" -> "l"
       [] c = "M" -> "m" [] c = "N" -> "n" [] c = "O" -> "o" [] c = "P" -> "p"
       [] c = "Q" -> "q" [] c = "R" -> "r" [] c = "S" -> "s" [] c = "T" -> "t"
       [] c = "U" -> "u" [] c = "V" -> "v" [] c = "W" -> "w" [] c = "X" -> "x"
       [] c = "Y" -> "y" [] c = "Z" -> "z"]

\* str.lower()
Lower(s) == [i \in 1..Len(s) |-> IF s[i] \in UpperLetters THEN LowerOf[s[i]] ELSE s[i]]

\* Literals of the source
S_www == <<"w","w","w",".">>
S_http == <<"h","t","t","p">>
S_sep == <<":","/","/">>
S_slash == <<"/">>
S_dslash == <<"/","/">>
S_dotslash == <<".","/">>
S_hash == <<"#">>
S_dotslashhash == <<".","/","#">>
S_updir == <<"/",".",".","/">>
S_png == <<".","p","n","g">>
S_pdf == <<".","p","d","f">>
S_jpg == <<".","j","p","g">>
S_jpeg == <<".","j","p","e","g">>
S_txt == <<".","t","x","t">>
S_xml == <<".","x","m","l">>

\* ------------------------------------------------------------------------
\* urllib.parse.urlparse, as called by get_url_info
\* ------------------------------------------------------------------------

\* urllib.parse.scheme_chars
scheme_chars == LowerLetters \cup UpperLetters \cup Digits \cup {"+", "-", "."}

\* The scheme split of urlsplit: the 0-based index of the ':' that ends a
\* scheme, or -1 when the url has no scheme.
SchemeEnd(url) ==
  LET i == Find(url, ":", 0)
  IN  IF i > 0 /\ url[1] \in (LowerLetters \cup UpperLetters)
           /\ \A k \in 1..i : url[k] \in scheme_chars
      THEN i ELSE -1

\* _splitnetloc(url, 2): the 0-based end of the network location
NetlocEnd(url) ==
  LET ds == {Find(url, "/", 2), Find(url, "?", 2), Find(url, "#", 2)} \ {-1}
  IN  IF ds = {} THEN Len(url) ELSE CHOOSE d \in ds : \A e \in ds : d <= e

\* The last step of urlsplit: fragment and query are cut off the text u2
\* that follows the network location
SplitResult(scheme, netloc0, rest) ==
  With(netloc0, LAMBDA netloc :
  With(rest, LAMBDA u2 :
  With(Find(u2, "#", 0), LAMBDA h :
  With(IF h >= 0 THEN SubSeq(u2, 1, h) ELSE u2, LAMBDA u3 :
  With(Find(u3, "?", 0), LAMBDA q :
    [raised |-> \/ ("[" \in Range(netloc) /\ "]" \notin Range(netloc))
                \/ ("]" \in Range(netloc) /\ "[" \notin Range(netloc)),
     scheme |-> scheme,
     netloc |-> netloc,
     path |-> IF q >= 0 THEN SubSeq(u3, 1, q) ELSE u3,
     query |-> IF q >= 0 THEN From(u3, q + 1) ELSE <<>>,
     fragment |-> IF h >= 0 THEN From(u2, h + 1) ELSE <<>>])))))

\* urlparse(url) as a record; raised = TRUE when urlsplit raises ValueError
\* ("Invalid IPv6 URL": a network location with an unmatched bracket).
urlparse(url0) ==
  With(url0, LAMBDA url :
  With(SchemeEnd(url), LAMBDA i :
  With(IF i >= 0 THEN From(url, i + 1) ELSE url, LAMBDA u1 :
  With(IF StartsWith(u1, S_dslash) THEN NetlocEnd(u1) ELSE -1, LAMBDA ne :
    SplitResult(IF i >= 0 THEN Lower(SubSeq(url, 1, i)) ELSE <<>>,
                IF ne >= 0 THEN SubSeq(u1, 3, ne) ELSE <<>>,
                IF ne >= 0 THEN From(u1, ne) ELSE u1)))))

\* get_url_info(url): (scheme, www_subdomain, domain, path, fragment)
get_url_info(url) ==
  With(urlparse(url), LAMBDA parsed_url :
    [scheme |-> parsed_url.scheme,
     www |-> StartsWith(parsed_url.netloc, S_www),
     domain |-> IF StartsWith(parsed_url.netloc, S_www)
                THEN From(parsed_url.netloc, 4) ELSE parsed_url.netloc,
     path |-> IF parsed_url.query = <<>> THEN parsed_url.path
              ELSE parsed_url.path \o <<"?">> \o parsed_url.query,
     fragment |-> parsed_url.fragment])

\* str.replace('//', '/'): left to right, non-overlapping
RECURSIVE ReplaceDoubleSlash(_)
ReplaceDoubleSlash(s) ==
  IF Len(s) < 2 THEN s
  ELSE IF s[1] = "/" /\ s[2] = "/"
       THEN S_slash \o ReplaceDoubleSlash(SubSeq(s, 3, Len(s)))
       ELSE <<s[1]>> \o ReplaceDoubleSlash(Tail(s))

RECURSIVE remove_consecutive_slashes(_)
remove_consecutive_slashes(basic_url) ==
  LET formatted_url == ReplaceDoubleSlash(basic_url)
  IN  IF formatted_url = basic_url THEN formatted_url
      ELSE remove_consecutive_slashes(formatted_url)

\* ------------------------------------------------------------------------
\* class Url
\* ------------------------------------------------------------------------

\* A refactor that strips the final slash only (lines 139-140 left out)
refactor_ending_only(text) ==
  IF text = S_slash THEN <<>>
  ELSE IF EndsWith(text, S_slash) THEN SubSeq(text, 1, Len(text) - 1) ELSE text

\* Url._refactor_ending.refactor
refactor(text) ==
  With(IF Contains(text, S_dslash) THEN remove_consecutive_slashes(text) ELSE text,
       LAMBDA t1 :
         IF t1 = S_slash THEN <<>>
         ELSE IF EndsWith(t1, S_slash) THEN SubSeq(t1, 1, Len(t1) - 1) ELSE t1)

\* Url._refactor_ending, on one attribute
refactor_ending(text0) ==
  With(text0, LAMBDA text : IF text # <<>> THEN refactor(text) ELSE text)

\* A _refactor_path without its last statement (lines 186-187): a fragment
\* reference does not take the parent's path
refactor_path_fragment_ignored(path, parent_path, string_url) ==
  IF StartsWith(path, S_dotslash) THEN parent_path \o From(path, 1)
  ELSE IF path # <<>> /\ ~StartsWith(path, S_slash)
       THEN parent_path \o S_slash \o path
       ELSE path

\* Url._refactor_path: the new path
refactor_path(path, parent_path, string_url) ==
  IF parent_path # <<>>
     /\ (StartsWith(string_url, S_hash) \/ StartsWith(string_url, S_dotslashhash))
  THEN parent_path
  ELSE IF StartsWith(path, S_dotslash) THEN parent_path \o From(path, 1)
       ELSE IF path # <<>> /\ ~StartsWith(path, S_slash)
            THEN parent_path \o S_slash \o path
            ELSE path

\* Whether Url(url, ...) raises (urlparse's ValueError is not caught)
UrlRaises(url) == urlparse(url).raised

\* Url._fill_parent_attributes: the parent attributes as first filled
\* (parent_www is None when there is no parent)
fill_parent_attributes(parent_url) ==
  IF parent_url # None
  THEN [parent_protocol |-> parent_url[1].protocol,
        parent_www |-> Some(parent_url[1].www),
        parent_domain |-> parent_url[1].domain,
        parent_path |-> parent_url[1].path]
  ELSE [parent_protocol |-> <<>>, parent_www |-> None,
        parent_domain |-> <<>>, parent_path |-> <<>>]

\* Url._refactor_attributes, on the attributes info parsed from the string
\* url and the parent attributes p
refactor_attributes(url, info0, p0) ==
  With(info0, LAMBDA info :
  With(p0, LAMBDA p :
  IF info.domain = <<>> \/ info.domain = p.parent_domain
  THEN [protocol |-> IF info.scheme = <<>> THEN p.parent_protocol ELSE info.scheme,
        domain |-> IF info.domain = <<>> THEN p.parent_domain ELSE info.domain,
        www |-> IF ~info.www /\ p.parent_www # None THEN p.parent_www[1] ELSE info.www,
        path |-> refactor_ending(refactor_path(info.path, p.parent_path, url)),
        fragment |-> refactor_ending(info.fragment)]
  ELSE [protocol |-> info.scheme,
        domain |-> info.domain,
        www |-> info.www,
        path |-> refactor_ending(info.path),
        fragment |-> refactor_ending(info.fragment)]))

\* The constructed Url: its own attributes a, the parent attributes p after
\* Url._refactor_root_attributes, and the use_parent_protocol flag
UrlObject(url, a0, p0, flag) ==
  With(a0, LAMBDA a :
  With(p0, LAMBDA p :
  [string_url |-> url,
   protocol |-> a.protocol,
   www |-> a.www,
   domain |-> a.domain,
   path |-> a.path,
   fragment |-> a.fragment,
   parent_protocol |-> IF p.parent_protocol = <<>> THEN a.protocol ELSE p.parent_protocol,
   parent_www |-> IF p.parent_www = None THEN a.www ELSE p.parent_www[1],
   parent_domain |-> IF p.parent_domain = <<>> THEN a.domain ELSE p.parent_domain,
   parent_path |-> p.parent_path,
   use_parent_protocol |-> flag]))

\* Url.__init__: parent_url is None or Some(a Url)
Url(url0, parent_url0, use_parent_protocol) ==
  With(url0, LAMBDA url :
  With(parent_url0, LAMBDA parent_url :
  With(fill_parent_attributes(parent_url), LAMBDA p :
  With(get_url_info(url), LAMBDA info :
  With(refactor_attributes(url, info, p), LAMBDA a :
    UrlObject(url, a, p,
              IF parent_url # None /\ use_parent_protocol
              THEN parent_url[1].use_parent_protocol
              ELSE use_parent_protocol))))))

\* A _get_protocol without the test of the flag
get_protocol_flag_ignored(u0) ==
  With(u0, LAMBDA u :
  IF u.domain = u.parent_domain
     /\ (u.protocol = <<>> \/ StartsWith(u.protocol, S_http))
  THEN u.parent_protocol ELSE u.protocol)

\* A _get_protocol without the test of the local protocol
get_protocol_any_scheme(u0) ==
  With(u0, LAMBDA u :
  IF u.use_parent_protocol /\ u.domain = u.parent_domain
  THEN u.parent_protocol ELSE u.protocol)

\* Url._get_protocol
get_protocol(u0) ==
  With(u0, LAMBDA u :
  IF u.use_parent_protocol /\ u.domain = u.parent_domain
     /\ (u.protocol = <<>> \/ StartsWith(u.protocol, S_http))
  THEN u.parent_protocol ELSE u.protocol)

\* Url.get_full_url
get_full_url(u0) ==
  With(u0, LAMBDA u :
    get_protocol(u) \o S_sep \o (IF u.www THEN S_www ELSE <<>>) \o u.domain \o u.path
      \o (IF u.fragment # <<>> THEN <<"/", "#">> \o u.fragment ELSE <<>>))

\* Url.get_basic_url
get_basic_url(u0) ==
  With(u0, LAMBDA u :
  With(get_protocol(u), LAMBDA protocol :
    IF StartsWith(protocol, S_http)
    THEN protocol \o S_sep \o u.domain \o u.path
    ELSE u.string_url))

\* The character classes of Url._default_regex
RegexClass ==
  LowerLetters \cup UpperLetters \cup Digits
    \cup {"@", ":", "%", ".", "_", "+", "~", "#", "?", "&", "/", "="}

RegexTailClass == RegexClass \cup {"-"}

WordChars == LowerLetters \cup UpperLetters \cup Digits \cup {"_"}

\* re.fullmatch of
\*   ((http|https)://)(www.)?[class]{2,256}\.[a-z]{2,6}\b([-class]*)
\* on the text r that follows the "http://" or "https://" prefix
MatchesAfterScheme(r0) ==
  \E r \in {r0} : \E w \in {0, 4} :
    /\ (w = 4 => Len(r) >= 4 /\ SubSeq(r, 1, 3) = <<"w","w","w">>)
    /\ \E a \in 2..(IF Len(r) < 256 THEN Len(r) ELSE 256) : \E t \in 2..6 :
         /\ w + a + 1 + t <= Len(r)
         /\ \A k \in (w + 1)..(w + a) : r[k] \in RegexClass
         /\ r[w + a + 1] = "."
         /\ \A k \in (w + a + 2)..(w + a + 1 + t) : r[k] \in LowerLetters
         /\ (w + a + 1 + t < Len(r) => r[w + a + 2 + t] \notin WordChars)
         /\ \A k \in (w + a + 2 + t)..Len(r) : r[k] \in RegexTailClass

FullMatchDefaultRegex(s0) ==
  \E s \in {s0} :
  \/ StartsWith(s, S_http \o S_sep) /\ MatchesAfterScheme(From(s, 7))
  \/ StartsWith(s, S_http \o <<"s">> \o S_sep) /\ MatchesAfterScheme(From(s, 8))

\* Url.is_valid (default regex)
is_valid(u) ==
  \E basic_url \in {get_basic_url(u)} :
    /\ StartsWith(basic_url, S_http)
    /\ ~Contains(basic_url, S_updir)
    /\ FullMatchDefaultRegex(basic_url)

\* Url._is_content_url
is_content_url(u) ==
  \E basic_url \in {get_basic_url(u)} :
    \/ EndsWith(basic_url, S_png) \/ EndsWith(basic_url, S_pdf)
    \/ EndsWith(basic_url, S_jpg) \/ EndsWith(basic_url, S_jpeg)
    \/ EndsWith(basic_url, S_txt)

\* Url.is_crawlable (default regex)
is_crawlable(u0) == \E u \in {u0} : is_valid(u) /\ ~is_content_url(u)

\* ------------------------------------------------------------------------
\* class UrlSet: the insertion-ordered dict of first-seen Urls; a sequence of
\* Urls with pairwise distinct get_basic_url()
\* ------------------------------------------------------------------------

UrlSet_keys(items0) ==
  With(items0, LAMBDA items : [i \in 1..Len(items) |-> get_basic_url(items[i])])

\* An add that replaces the Url stored under the canonical form
UrlSet_add_last_wins(items0, item0) ==
  With(items0, LAMBDA items :
  With(item0, LAMBDA item :
  With(get_basic_url(item), LAMBDA item_hash :
    IF \E i \in 1..Len(items) : get_basic_url(items[i]) = item_hash
    THEN [i \in 1..Len(items) |->
            IF get_basic_url(items[i]) = item_hash THEN item ELSE items[i]]
    ELSE Append(items, item))))

\* UrlSet.add
UrlSet_add(items0, item0) ==
  With(items0, LAMBDA items :
  With(item0, LAMBDA item :
  With(get_basic_url(item), LAMBDA item_hash :
    IF \E i \in 1..Len(items) : get_basic_url(items[i]) = item_hash
    THEN items ELSE Append(items, item))))

\* UrlSet.__init__
RECURSIVE UrlSet_from(_, _)
UrlSet_from(items, urls0) ==
  With(urls0, LAMBDA urls :
    IF urls = <<>> THEN items
    ELSE UrlSet_from(UrlSet_add(items, Head(urls)), Tail(urls)))

UrlSet(urls) == UrlSet_from(<<>>, urls)


\* ------------------------------------------------------------------------
\* class Crawler: construction
\* ------------------------------------------------------------------------

\* Durations are in tenths of a second (0.3 s is 3)
DefaultSleepBetweenRetries == 3

\* A Crawler.__init__ whose test of max_runners is >= 0: 0 runners are kept
Crawler_zero_runners_kept(args) ==
  [url |-> Url(args.url, None, TRUE),
   domain_filter |-> args.domain_filter,
   max_runners |-> IF args.max_runners >= 0 THEN args.max_runners ELSE 1,
   max_retries |-> IF args.max_retries >= 0 THEN args.max_retries ELSE 0,
   sleep_between_retries |->
     IF args.sleep_between_retries >= 0 THEN args.sleep_between_retries
     ELSE DefaultSleepBetweenRetries,
   max_depth |->
     IF args.max_depth # None /\ args.max_depth[1] < 0 THEN Some(0) ELSE args.max_depth,
   regex_search |-> args.regex_search,
   assume_parent_protocol |-> args.assume_parent_protocol,
   sleep_after_request |->
     IF args.sleep_after_request >= 0 THEN args.sleep_after_request ELSE 0,
   concurrent_requests_limit |->
     IF args.concurrent_requests_limit # None /\ args.concurrent_requests_limit[1] > 0
     THEN args.concurrent_requests_limit ELSE None]

\* Crawler.__init__: the attributes of the constructed object, from the
\* arguments as given (max_depth and concurrent_requests_limit are None or
\* Some(n))
Crawler(args) ==
  [url |-> Url(args.url, None, TRUE),
   domain_filter |-> args.domain_filter,
   max_runners |-> IF args.max_runners > 0 THEN args.max_runners ELSE 1,
   max_retries |-> IF args.max_retries >= 0 THEN args.max_retries ELSE 0,
   sleep_between_retries |->
     IF args.sleep_between_retries >= 0 THEN args.sleep_between_retries
     ELSE DefaultSleepBetweenRetries,
   max_depth |->
     IF args.max_depth # None /\ args.max_depth[1] < 0 THEN Some(0) ELSE args.max_depth,
   regex_search |-> args.regex_search,
   assume_parent_protocol |-> args.assume_parent_protocol,
   sleep_after_request |->
     IF args.sleep_after_request >= 0 THEN args.sleep_after_request ELSE 0,
   concurrent_requests_limit |->
     IF args.concurrent_requests_limit # None /\ args.concurrent_requests_limit[1] > 0
     THEN args.concurrent_requests_limit ELSE None]

\* ------------------------------------------------------------------------
\* Link extraction.  An HTML page is a sequence of tokens in document order:
\* [a |-> TRUE, s |-> href] is an anchor <a href="...">, [a |-> FALSE,
\* s |-> text] is text outside any anchor.  A token is either a complete
\* URL (the default regex matches all of it) or holds no URL at all.
\* ------------------------------------------------------------------------

\* soup.find_all('a') and link.get('href')
Hrefs(html_text) ==
  LET RECURSIVE H(_)
      H(t) == IF t = <<>> THEN <<>>
              ELSE IF Head(t).a THEN <<Head(t).s>> \o H(Tail(t)) ELSE H(Tail(t))
  IN  H(html_text)

\* re.finditer(self.url.default_regex, html_text)
RegexMatches(html_text) ==
  LET RECURSIVE M(_)
      M(t) == IF t = <<>> THEN <<>>
              ELSE IF FullMatchDefaultRegex(Head(t).s)
                   THEN <<Head(t).s>> \o M(Tail(t)) ELSE M(Tail(t))
  IN  M(html_text)

\* Whether Crawler._get_urls_from_text raises: a Url() of line 180 does
TextRaises(html_text) ==
  \E hrefs \in {Hrefs(html_text)} : \E i \in 1..Len(hrefs) : UrlRaises(hrefs[i])

\* Lines 183-188: a regex match is appended unless its canonical form is
\* already among the urls
RECURSIVE append_matches(_, _, _, _)
append_matches(urls0, matches0, parent_url, use_parent_protocol) ==
  With(urls0, LAMBDA urls :
  With(matches0, LAMBDA matches :
    IF matches = <<>> THEN urls
    ELSE With(Url(Head(matches), Some(parent_url), use_parent_protocol),
              LAMBDA url_to_append :
                IF get_basic_url(url_to_append) \in Range(UrlSet_keys(UrlSet(urls)))
                THEN append_matches(urls, Tail(matches), parent_url, use_parent_protocol)
                ELSE append_matches(Append(urls, url_to_append), Tail(matches),
                                    parent_url, use_parent_protocol))))

\* A _get_urls_from_text whose domain filter is applied to the anchors only,
\* before the regex matches are appended
get_urls_from_text_filter_before_regex(crawler, html_text0, parent_url0) ==
  With(html_text0, LAMBDA html_text :
  With(parent_url0, LAMBDA parent_url :
  With(Hrefs(html_text), LAMBDA hrefs :
  With([i \in 1..Len(hrefs) |->
          Url(hrefs[i], Some(parent_url), crawler.assume_parent_protocol)],
       LAMBDA anchors :
  With(IF crawler.domain_filter
       THEN SelectSeq(anchors, LAMBDA url : crawler.url.domain = url.domain)
       ELSE anchors,
       LAMBDA urls :
         IF crawler.regex_search
         THEN append_matches(urls, RegexMatches(html_text), parent_url,
                             crawler.assume_parent_protocol)
         ELSE urls)))))

\* Crawler._get_urls_from_text
get_urls_from_text(crawler, html_text0, parent_url0) ==
  With(html_text0, LAMBDA html_text :
  With(parent_url0, LAMBDA parent_url :
  With(Hrefs(html_text), LAMBDA hrefs :
  With([i \in 1..Len(hrefs) |->
          Url(hrefs[i], Some(parent_url), crawler.assume_parent_protocol)],
       LAMBDA anchors :
  With(IF crawler.regex_search
       THEN append_matches(anchors, RegexMatches(html_text), parent_url,
                           crawler.assume_parent_protocol)
       ELSE anchors,
       LAMBDA urls :
         IF crawler.domain_filter
         THEN SelectSeq(urls, LAMBDA url : crawler.url.domain = url.domain)
         ELSE urls)))))

\* ------------------------------------------------------------------------
\* The crawl: state
\* ------------------------------------------------------------------------

VARIABLES
  self,             \* the Crawler's attributes (set by __init__, then constant)
  site,             \* the web site crawled: what the transport answers
  crawled_urls,     \* self.crawled_urls: canonical URL -> list of canonical URLs
  queue,            \* self._queue: the items (url, depth), oldest first
  unfinished_tasks, \* self._queue._unfinished_tasks: puts minus task_done calls
  getters,          \* self._queue._getters: consumers blocked in get(), oldest first
  limit_value,      \* self._limit._value: the free permits
  limit_waiters,    \* self._limit._waiters: consumers blocked in acquire()
  limit_woken,      \* the waiters whose future release() has already resolved
  ready,            \* the event loop's ready queue: the tasks to run, in order
  consumers,        \* the _queue_processor tasks: where each is suspended
  crawl_pc,         \* crawl(): "join" (awaiting self._queue.join()) or "returned"
  fetch_log,        \* history: canonical URL -> the GETs of it that ended (by, outcome)
  claimed,          \* history: canonical URL -> the claims of it (by, url, depth)
  enqueued,         \* history: the items ever put (key, url, depth, parent), in order
  skipped,          \* history: canonical URL -> the dequeues that found it claimed
  dequeued,         \* history: the depths of the items get() returned, in order
  stored,           \* history: the canonical URLs whose list line 101 has stored
  completed,        \* history: the number of task_done() calls
  url_set,          \* UrlSet: the _items of a set under study, in order, or None
  added,            \* UrlSet: the Urls add() was called with, in order
  given,            \* the arguments of a construction under study, or None
  built,            \* Url(): the object constructed of them, or None
  rendered          \* Url(): its get_full_url() and get_basic_url(), and the
                    \* get_basic_url() of the Url constructed of that one; or None

vars == <<self, site, crawled_urls, queue, unfinished_tasks, getters, limit_value,
          limit_waiters, limit_woken, ready, consumers, crawl_pc, fetch_log, claimed,
          enqueued, skipped, dequeued, stored, completed, url_set, added, given, built, rendered>>

\* The task of crawl() itself; the consumers are 1..self.max_runners
Main == 0

Workers == 1..self.max_runners

\* f with f[k] = v
Put(f0, k0, v0) ==
  With(f0, LAMBDA f :
  With(k0, LAMBDA k :
  With(v0, LAMBDA v : [x \in DOMAIN f \cup {k} |-> IF x = k THEN v ELSE f[x]])))

\* f[k], or <<>> when k is no key of f
Lookup(f0, k) == With(f0, LAMBDA f : IF k \in DOMAIN f THEN f[k] ELSE <<>>)

\* f[k], or 0 when k is no key of f
Count(f0, k) == With(f0, LAMBDA f : IF k \in DOMAIN f THEN f[k] ELSE 0)

\* The mutable state as one record S, so that the code run by one task
\* between two suspension points is a composition of functions on S;
\* S.current is the task running (asyncio.current_task())
State ==
  [crawled_urls |-> crawled_urls, queue |-> queue,
   unfinished_tasks |-> unfinished_tasks, getters |-> getters,
   limit_value |-> limit_value, limit_waiters |-> limit_waiters,
   limit_woken |-> limit_woken, ready |-> ready, consumers |-> consumers,
   crawl_pc |-> crawl_pc, fetch_log |-> fetch_log, claimed |-> claimed,
   enqueued |-> enqueued, skipped |-> skipped, dequeued |-> dequeued,
   stored |-> stored,
   completed |-> completed, current |-> Main]

Commit(S) ==
  /\ crawled_urls' = S.crawled_urls
  /\ queue' = S.queue
  /\ unfinished_tasks' = S.unfinished_tasks
  /\ getters' = S.getters
  /\ limit_value' = S.limit_value
  /\ limit_waiters' = S.limit_waiters
  /\ limit_woken' = S.limit_woken
  /\ ready' = S.ready
  /\ consumers' = S.consumers
  /\ crawl_pc' = S.crawl_pc
  /\ fetch_log' = S.fetch_log
  /\ claimed' = S.claimed
  /\ enqueued' = S.enqueued
  /\ skipped' = S.skipped
  /\ dequeued' = S.dequeued
  /\ stored' = S.stored
  /\ completed' = S.completed
  /\ UNCHANGED <<self, site, url_set, added, given, built, rendered>>

\* A consumer suspended in self._queue.get(), holding no item
Idle == [pc |-> "get", url_in_queue |-> None, depth |-> 0, retries |-> 0, urls |-> <<>>]

\* The canonical URL of the item a consumer holds (None when it holds none)
Holding(S, t) ==
  IF t \in DOMAIN S.consumers /\ S.consumers[t].url_in_queue # None
  THEN Some(get_basic_url(S.consumers[t].url_in_queue[1]))
  ELSE None

\* ------------------------------------------------------------------------
\* The web site (the transport of Crawler._get)
\* ------------------------------------------------------------------------

\* The body the site serves at a URL string
PageText(s) == site.pages[s]

\* What a GET of a URL string can end in: "ok" (a body), "transport" (any
\* exception but a decode failure), "decode" (UnicodeDecodeError)
Outcomes(s) ==
  IF s \notin DOMAIN site.pages THEN {"transport"}
  ELSE {"ok"} \cup (IF s \in site.flaky THEN {"transport"} ELSE {})
              \cup (IF s \in site.garbled THEN {"decode"} ELSE {})

\* ------------------------------------------------------------------------
\* asyncio.Queue and asyncio.Semaphore
\* ------------------------------------------------------------------------

\* Queue._wakeup_next(self._getters)
wakeup_next_getter(S0) ==
  With(S0, LAMBDA S :
    IF S.getters # <<>>
    THEN [S EXCEPT !.getters = Tail(@), !.ready = Append(@, Head(S.getters))]
    ELSE S)

\* The put_nowait of a last-in-first-out queue: the item goes in front
put_nowait_newest_first(S0, item0) ==
  With(S0, LAMBDA S :
  With(item0, LAMBDA item :
    wakeup_next_getter(
      [S EXCEPT !.queue = <<item>> \o @,
                !.unfinished_tasks = @ + 1,
                !.enqueued = Append(@, [key |-> get_basic_url(item.url),
                                        url |-> item.url,
                                        depth |-> item.depth,
                                        parent |-> Holding(S, S.current)])])))

\* Queue.put_nowait: append, count, wake the oldest getter
put_nowait(S0, item0) ==
  With(S0, LAMBDA S :
  With(item0, LAMBDA item :
    wakeup_next_getter(
      [S EXCEPT !.queue = Append(@, item),
                !.unfinished_tasks = @ + 1,
                !.enqueued = Append(@, [key |-> get_basic_url(item.url),
                                        url |-> item.url,
                                        depth |-> item.depth,
                                        parent |-> Holding(S, S.current)])])))

\* A join() that waits for the queue to be empty instead of counting the
\* items done
task_done_when_queue_empty(S0) ==
  With([S0 EXCEPT !.unfinished_tasks = @ - 1, !.completed = @ + 1], LAMBDA S :
    IF S.queue = <<>> /\ S.crawl_pc = "join" /\ Main \notin Range(S.ready)
    THEN [S EXCEPT !.ready = Append(@, Main)]
    ELSE S)

\* Queue.task_done: count down; at zero self._finished.set() wakes join()
task_done(S0) ==
  With([S0 EXCEPT !.unfinished_tasks = @ - 1, !.completed = @ + 1], LAMBDA S :
    IF S.unfinished_tasks = 0 /\ S.crawl_pc = "join" /\ Main \notin Range(S.ready)
    THEN [S EXCEPT !.ready = Append(@, Main)]
    ELSE S)

\* Semaphore._wake_up_next: hand a permit to the oldest waiter not yet woken
wake_up_next(S0) ==
  With(S0, LAMBDA S :
  With({i \in 1..Len(S.limit_waiters) : S.limit_waiters[i] \notin S.limit_woken},
       LAMBDA cands :
         IF cands = {} THEN S
         ELSE With(S.limit_waiters[CHOOSE c \in cands : \A d \in cands : c <= d],
                   LAMBDA w : [S EXCEPT !.limit_value = @ - 1,
                                        !.limit_woken = @ \cup {w},
                                        !.ready = Append(@, w)])))

\* Semaphore.release
release(S) == wake_up_next([S EXCEPT !.limit_value = @ + 1])

\* Leaving "async with self._limit" (when self._limit is set)
exit_limit(S) == IF self.concurrent_requests_limit # None THEN release(S) ELSE S

\* ------------------------------------------------------------------------
\* The consumers: Crawler._queue_processor and what it calls.  asyncio runs
\* one task at a time, from one suspension point (an await that blocks) to
\* the next; each operator below is code run without suspension.
\* ------------------------------------------------------------------------

\* A claim that leaves out the placeholder of line 97
claim_without_placeholder(S0, w, basic_url_in_queue0) ==
  With(S0, LAMBDA S :
  With(basic_url_in_queue0, LAMBDA basic_url_in_queue :
    [S EXCEPT !.claimed = Put(@, basic_url_in_queue,
                              Append(Lookup(@, basic_url_in_queue),
                                     [by |-> w,
                                      url |-> S.consumers[w].url_in_queue[1],
                                      depth |-> S.consumers[w].depth]))]))

\* Line 97: self.crawled_urls[basic_url_in_queue] = []
claim(S0, w, basic_url_in_queue0) ==
  With(S0, LAMBDA S :
  With(basic_url_in_queue0, LAMBDA basic_url_in_queue :
    [S EXCEPT !.crawled_urls = Put(@, basic_url_in_queue, <<>>),
              !.claimed = Put(@, basic_url_in_queue,
                              Append(Lookup(@, basic_url_in_queue),
                                     [by |-> w,
                                      url |-> S.consumers[w].url_in_queue[1],
                                      depth |-> S.consumers[w].depth]))]))

\* A _get_urls that does not wait for a permit: it takes one if one is free
\* and issues the GET in either case
get_urls_without_waiting(S0, w) ==
  With(S0, LAMBDA S :
    IF self.concurrent_requests_limit # None /\ S.limit_value > 0 /\ S.limit_waiters = <<>>
    THEN [S EXCEPT !.limit_value = @ - 1, !.consumers[w].pc = "request"]
    ELSE [S EXCEPT !.consumers[w].pc = "request"])

\* Crawler._get_urls from its entry (lines 140-145): take a permit if a limit
\* is set, blocking in acquire() when the semaphore is locked, and issue the
\* GET, which suspends the task until the transport answers
get_urls(S0, w) ==
  With(S0, LAMBDA S :
    IF self.concurrent_requests_limit # None
    THEN IF S.limit_value > 0 /\ S.limit_waiters = <<>>
         THEN [S EXCEPT !.limit_value = @ - 1, !.consumers[w].pc = "request"]
         ELSE [S EXCEPT !.limit_waiters = Append(@, w), !.consumers[w].pc = "acquire"]
    ELSE [S EXCEPT !.consumers[w].pc = "request"])

\* Line 119 without the test of the domain
to_be_queued_any_domain(S, url0) ==
  \E url \in {url0} :
    /\ get_basic_url(url) \notin DOMAIN S.crawled_urls
    /\ is_crawlable(url)

\* Line 119 without the test of is_crawlable()
to_be_queued_any_content(S, url0) ==
  \E url \in {url0} :
    /\ url.domain = self.url.domain
    /\ get_basic_url(url) \notin DOMAIN S.crawled_urls

\* Line 119: whether a url found at a page is put in the queue
to_be_queued(S, url0) ==
  \E url \in {url0} :
    /\ url.domain = self.url.domain
    /\ get_basic_url(url) \notin DOMAIN S.crawled_urls
    /\ is_crawlable(url)

\* Crawler._add_urls_to_queue
RECURSIVE add_urls_to_queue(_, _, _)
add_urls_to_queue(S0, urls0, depth) ==
  With(S0, LAMBDA S :
  With(urls0, LAMBDA urls :
    IF urls = <<>> THEN S
    ELSE IF to_be_queued(S, Head(urls))
         THEN add_urls_to_queue(put_nowait(S, [url |-> Head(urls), depth |-> depth + 1]),
                                Tail(urls), depth)
         ELSE add_urls_to_queue(S, Tail(urls), depth)))

\* Line 104 with <= for <
under_max_depth_inclusive(depth) == self.max_depth = None \/ depth <= self.max_depth[1]

\* Line 104 with the truth value of max_depth for "is None": 0 counts as unset
under_max_depth_falsy_zero(depth) ==
  self.max_depth = None \/ self.max_depth[1] = 0 \/ depth < self.max_depth[1]

\* Line 104: whether the children of an item at this depth are enqueued
under_max_depth(depth) == self.max_depth = None \/ depth < self.max_depth[1]

\* Line 94: self._queue.get() returns the oldest item without suspending
get_nowait(S, w) ==
  [S EXCEPT !.queue = Tail(@),
            !.dequeued = Append(@, Head(S.queue).depth),
            !.consumers[w] = [Idle EXCEPT !.pc = "run",
                                          !.url_in_queue = Some(Head(S.queue).url),
                                          !.depth = Head(S.queue).depth]]

\* Lines 96 and 106 for an item whose key is already in crawled_urls:
\* nothing is fetched, the item is marked done
skip(S0, basic_url_in_queue0) ==
  With(basic_url_in_queue0, LAMBDA basic_url_in_queue :
    task_done([S0 EXCEPT !.skipped = Put(@, basic_url_in_queue,
                                         Count(@, basic_url_in_queue) + 1)]))

\* Line 94 to the next suspension: take the oldest item, or block in get()
\* when the queue is empty; an item whose key is already in crawled_urls is
\* marked done at once and the loop goes on without suspending
RECURSIVE queue_processor(_, _)
queue_processor(S0, w) ==
  With(S0, LAMBDA S :
    IF S.queue = <<>>
    THEN [S EXCEPT !.getters = Append(@, w), !.consumers[w] = Idle]
    ELSE With(get_basic_url(Head(S.queue).url), LAMBDA basic_url_in_queue :
           IF basic_url_in_queue \notin DOMAIN S.crawled_urls
           THEN get_urls(claim(get_nowait(S, w), w, basic_url_in_queue), w)
           ELSE queue_processor(skip(get_nowait(S, w), basic_url_in_queue), w)))

\* Lines 98-103: the list fetched, without the links to the page itself, is
\* stored in canonical form
store(S0, basic_url_in_queue0, urls0) ==
  With(basic_url_in_queue0, LAMBDA basic_url_in_queue :
  With(urls0, LAMBDA urls :
    [S0 EXCEPT !.crawled_urls =
                 Put(@, basic_url_in_queue,
                     [i \in 1..Len(urls) |-> get_basic_url(urls[i])]),
               !.stored = @ \cup {basic_url_in_queue}]))

\* Lines 98-106 without the filter of lines 98-99: the links of the page to
\* itself stay in the list
process_urls_keeping_self_links(S0, w, fetched) ==
  With(S0, LAMBDA S :
  With(get_basic_url(S.consumers[w].url_in_queue[1]), LAMBDA basic_url_in_queue :
  With(fetched, LAMBDA urls :
         queue_processor(
           task_done(
             IF under_max_depth(S.consumers[w].depth)
             THEN add_urls_to_queue(store(S, basic_url_in_queue, urls), UrlSet(urls),
                                    S.consumers[w].depth)
             ELSE store(S, basic_url_in_queue, urls)),
           w))))

\* Lines 98-106 with the list itself, not UrlSet(urls), passed at line 105
process_urls_without_UrlSet(S0, w, fetched) ==
  With(S0, LAMBDA S :
  With(get_basic_url(S.consumers[w].url_in_queue[1]), LAMBDA basic_url_in_queue :
  With(SelectSeq(fetched, LAMBDA url : get_basic_url(url) # basic_url_in_queue),
       LAMBDA urls :
         queue_processor(
           task_done(
             IF under_max_depth(S.consumers[w].depth)
             THEN add_urls_to_queue(store(S, basic_url_in_queue, urls), urls,
                                    S.consumers[w].depth)
             ELSE store(S, basic_url_in_queue, urls)),
           w))))

\* Lines 98-106, once _get_urls has returned the list fetched, and on to
\* the next suspension
process_urls(S0, w, fetched) ==
  With(S0, LAMBDA S :
  With(get_basic_url(S.consumers[w].url_in_queue[1]), LAMBDA basic_url_in_queue :
  With(SelectSeq(fetched, LAMBDA url : get_basic_url(url) # basic_url_in_queue),
       LAMBDA urls :
         queue_processor(
           task_done(
             IF under_max_depth(S.consumers[w].depth)
             THEN add_urls_to_queue(store(S, basic_url_in_queue, urls), UrlSet(urls),
                                    S.consumers[w].depth)
             ELSE store(S, basic_url_in_queue, urls)),
           w))))

\* Lines 164-167 in a _get_urls whose retry (line 158) drops the list found
got_text_dropped_after_retry(S0, w, text0) ==
  With(S0, LAMBDA S :
  With(text0, LAMBDA text :
    IF TextRaises(text)
    THEN [S EXCEPT !.consumers[w].pc = "failed"]
    ELSE With(IF S.consumers[w].retries > 0 THEN <<>>
              ELSE get_urls_from_text(self, text, S.consumers[w].url_in_queue[1]),
              LAMBDA urls :
                IF self.sleep_after_request > 0
                THEN [S EXCEPT !.consumers[w].pc = "request_sleep",
                               !.consumers[w].urls = urls]
                ELSE process_urls(S, w, urls))))

\* Lines 164-167: the body was obtained
got_text(S0, w, text0) ==
  With(S0, LAMBDA S :
  With(text0, LAMBDA text :
    IF TextRaises(text)
    THEN \* the ValueError of Url() leaves _get_urls and _queue_processor:
         \* the task ends, its item is never marked done
         [S EXCEPT !.consumers[w].pc = "failed"]
    ELSE With(get_urls_from_text(self, text, S.consumers[w].url_in_queue[1]),
              LAMBDA urls :
                IF self.sleep_after_request > 0
                THEN [S EXCEPT !.consumers[w].pc = "request_sleep",
                               !.consumers[w].urls = urls]
                ELSE process_urls(S, w, urls))))

\* Lines 149-163 with <= for < at line 150
request_failed_one_more_retry(S0, w) ==
  With(S0, LAMBDA S :
    IF S.consumers[w].retries <= self.max_retries
    THEN IF self.sleep_between_retries > 0
         THEN [S EXCEPT !.consumers[w].retries = @ + 1,
                        !.consumers[w].pc = "retry_sleep"]
         ELSE get_urls([S EXCEPT !.consumers[w].retries = @ + 1], w)
    ELSE process_urls(S, w, <<>>))

\* Lines 149-163: the GET raised anything but UnicodeDecodeError
request_failed(S0, w) ==
  With(S0, LAMBDA S :
    IF S.consumers[w].retries < self.max_retries
    THEN IF self.sleep_between_retries > 0
         THEN [S EXCEPT !.consumers[w].retries = @ + 1,
                        !.consumers[w].pc = "retry_sleep"]
         ELSE get_urls([S EXCEPT !.consumers[w].retries = @ + 1], w)
    ELSE process_urls(S, w, <<>>))

\* The history of the GETs, with one more outcome for the URL string s
logged(S, w, s0, outcome) ==
  With(s0, LAMBDA s :
    [S EXCEPT !.fetch_log = Put(@, s, Append(Lookup(@, s),
                                             [by |-> w, outcome |-> outcome]))])

\* A try statement without the except clause of lines 146-148: a decode
\* failure is handled as any other exception
get_returns_decode_retried(S0, w, outcome) ==
  With(exit_limit(logged(S0, w, get_basic_url(S0.consumers[w].url_in_queue[1]), outcome)),
       LAMBDA S :
         CASE outcome = "ok" ->
                got_text(S, w, PageText(get_basic_url(S.consumers[w].url_in_queue[1])))
           [] OTHER -> request_failed(S, w))

\* A _get_urls that leaves "async with self._limit" only with a body: a GET
\* that failed keeps its permit
get_returns_permit_kept_on_failure(S0, w, outcome) ==
  With(logged(S0, w, get_basic_url(S0.consumers[w].url_in_queue[1]), outcome),
       LAMBDA S :
         CASE outcome = "ok" ->
                got_text(exit_limit(S), w,
                         PageText(get_basic_url(S.consumers[w].url_in_queue[1])))
           [] outcome = "decode" -> process_urls(S, w, <<>>)
           [] OTHER -> request_failed(S, w))

\* The GET of lines 143/145 ends in outcome: the permit is given back, then
\* the try statement's branch for that outcome runs
get_returns(S0, w, outcome) ==
  With(exit_limit(logged(S0, w, get_basic_url(S0.consumers[w].url_in_queue[1]), outcome)),
       LAMBDA S :
         CASE outcome = "ok" ->
                got_text(S, w, PageText(get_basic_url(S.consumers[w].url_in_queue[1])))
           [] outcome = "decode" -> process_urls(S, w, <<>>)
           [] OTHER -> request_failed(S, w))

\* A consumer woken in acquire(): it leaves the waiters, passes a spare
\* permit on, and issues its GET
acquired(S0, w) ==
  With([S0 EXCEPT !.limit_waiters = SelectSeq(@, LAMBDA x : x # w),
                  !.limit_woken = @ \ {w},
                  !.consumers[w].pc = "request"],
       LAMBDA S : IF S.limit_value > 0 THEN wake_up_next(S) ELSE S)

\* crawl() after self._queue.join(): cancel the consumers and return
join_returns(S) ==
  [S EXCEPT !.crawl_pc = "returned",
            !.consumers = [w \in DOMAIN @ |->
                             IF @[w].pc = "failed" THEN @[w]
                             ELSE [@[w] EXCEPT !.pc = "cancelled"]],
            !.ready = <<>>, !.getters = <<>>,
            !.limit_waiters = <<>>, !.limit_woken = {}]

\* ------------------------------------------------------------------------
\* Actions
\* ------------------------------------------------------------------------

\* The state in which the task at the head of the ready queue starts to run
Running == [State EXCEPT !.ready = Tail(@), !.current = Head(ready)]

IsNext(t) == ready # <<>> /\ Head(ready) = t

\* A consumer starts, or resumes in self._queue.get()
RunGet(w) ==
  /\ IsNext(w) /\ consumers[w].pc = "get"
  /\ \E S \in {queue_processor(Running, w)} : Commit(S)

\* A consumer resumes with the answer to its GET
RunResponse(w) ==
  /\ IsNext(w) /\ consumers[w].pc = "response"
  /\ \E outcome \in Outcomes(get_basic_url(consumers[w].url_in_queue[1])) :
       \E S \in {get_returns(Running, w, outcome)} : Commit(S)

\* A consumer resumes in acquire() with a permit
RunAcquired(w) ==
  /\ IsNext(w) /\ consumers[w].pc = "acquire"
  /\ \E S \in {acquired(Running, w)} : Commit(S)

\* A consumer resumes after asyncio.sleep(self.sleep_between_retries)
RunRetry(w) ==
  /\ IsNext(w) /\ consumers[w].pc = "retry_wake"
  /\ \E S \in {get_urls(Running, w)} : Commit(S)

\* A consumer resumes after asyncio.sleep(self.sleep_after_request)
RunAfterRequest(w) ==
  /\ IsNext(w) /\ consumers[w].pc = "request_wake"
  /\ \E S \in {process_urls(Running, w, consumers[w].urls)} : Commit(S)

\* crawl() resumes after self._queue.join()
RunJoin ==
  /\ IsNext(Main) /\ crawl_pc = "join"
  /\ \E S \in {join_returns(Running)} : Commit(S)

\* The transport has the answer to a consumer's GET: the task becomes ready
ResponseArrives(w) ==
  /\ crawl_pc = "join" /\ consumers[w].pc = "request"
  /\ \E S \in {[State EXCEPT !.consumers[w].pc = "response", !.ready = Append(@, w)]} :
       Commit(S)

\* A sleep of a consumer is over: the task becomes ready
TimerFires(w) ==
  /\ crawl_pc = "join" /\ consumers[w].pc \in {"retry_sleep", "request_sleep"}
  /\ \E S \in {[State EXCEPT
                   !.consumers[w].pc =
                     IF @ = "retry_sleep" THEN "retry_wake" ELSE "request_wake",
                   !.ready = Append(@, w)]} :
       Commit(S)

Next ==
  \/ \E w \in Workers : RunGet(w)
  \/ \E w \in Workers : RunResponse(w)
  \/ \E w \in Workers : RunAcquired(w)
  \/ \E w \in Workers : RunRetry(w)
  \/ \E w \in Workers : RunAfterRequest(w)
  \/ RunJoin
  \/ \E w \in Workers : ResponseArrives(w)
  \/ \E w \in Workers : TimerFires(w)

\* ------------------------------------------------------------------------
\* The sites and the configurations explored
\* ------------------------------------------------------------------------

Root == <<"h","t","t","p","s",":","/","/","a","b",".","c","o">>
U_a == <<"h","t","t","p","s",":","/","/","a","b",".","c","o","/","a">>
U_b == <<"h","t","t","p","s",":","/","/","a","b",".","c","o","/","b">>
U_d == <<"h","t","t","p","s",":","/","/","a","b",".","c","o","/","d">>
U_x == <<"h","t","t","p","s",":","/","/","a","b",".","c","o","/","x">>

A(href) == [a |-> TRUE, s |-> href]

\* root -> /a, /b, /d (and /a again);  /a -> /d;  /b -> /d, /x;  /d -> / (the
\* root).  /a may fail transiently, /a and /d may be undecodable, /x is no
\* page of the site: its GET always fails.
SiteDiamond ==
  [pages |-> (Root :> <<A(<<"/","a">>), A(<<"/","b">>), A(<<"/","d">>), A(<<"/","a">>)>>)
          @@ (U_a :> <<A(<<"/","d">>)>>)
          @@ (U_b :> <<A(<<"/","d">>), A(<<"/","x">>)>>)
          @@ (U_d :> <<A(<<"/">>)>>),
   flaky |-> {U_a},
   garbled |-> {U_a, U_d}]

\* root -> /a;  /a -> an href urlparse rejects, then /d
SiteBadHref ==
  [pages |-> (Root :> <<A(<<"/","a">>)>>)
          @@ (U_a :> <<A(<<"h","t","t","p",":","/","/","[">>), A(<<"/","d">>)>>)
          @@ (U_d :> <<>>),
   flaky |-> {},
   garbled |-> {}]

MaxRunners == 2
MaxRetries == 1
MaxDepth == 1

\* (domain_filter, regex_search, assume_parent_protocol)
Flags == {<<TRUE, FALSE, TRUE>>}

\* (sleep_between_retries, sleep_after_request, concurrent_requests_limit)
Timings == {<<0, 0, None>>, <<3, 1, Some(1)>>}

ArgSet ==
  {[url |-> Root, regex_search |-> f[2], domain_filter |-> f[1],
    max_runners |-> r, max_retries |-> t, sleep_between_retries |-> z[1],
    max_depth |-> d, assume_parent_protocol |-> f[3],
    sleep_after_request |-> z[2], concurrent_requests_limit |-> z[3]] :
     r \in 1..MaxRunners, t \in 0..MaxRetries,
     d \in {None} \cup {Some(n) : n \in 0..MaxDepth},
     f \in Flags, z \in Timings}

\* crawl() up to its suspension in self._queue.join() (lines 76-83): the
\* semaphore, the queue holding the root at depth 0, the consumers created
\* and scheduled
InitWith(args, sites) ==
  /\ self \in {Crawler(a) : a \in args}
  /\ site \in sites
  /\ crawled_urls = <<>>
  /\ queue = <<[url |-> self.url, depth |-> 0]>>
  /\ unfinished_tasks = 1
  /\ getters = <<>>
  /\ limit_value = IF self.concurrent_requests_limit # None
                   THEN self.concurrent_requests_limit[1] ELSE 0
  /\ limit_waiters = <<>>
  /\ limit_woken = {}
  /\ ready = [i \in 1..self.max_runners |-> i]
  /\ consumers = [w \in 1..self.max_runners |-> Idle]
  /\ crawl_pc = "join"
  /\ fetch_log = <<>>
  /\ claimed = <<>>
  /\ enqueued = <<[key |-> get_basic_url(self.url), url |-> self.url, depth |-> 0,
                    parent |-> None]>>
  /\ skipped = <<>>
  /\ dequeued = <<>>
  /\ stored = {}
  /\ completed = 0
  /\ given = None /\ built = None /\ rendered = None
  /\ url_set = None /\ added = <<>>

Init == InitWith(ArgSet, {SiteDiamond, SiteBadHref})

Spec == Init /\ [][Next]_vars

\* ------------------------------------------------------------------------
\* A site for the rules on links: duplicates, links to other domains, content
\* links, links of a page to itself, http and https links
\* ------------------------------------------------------------------------

H_a == <<"h","t","t","p","s",":","/","/","a","b",".","c","o","/","a">>
H_p == <<"h","t","t","p","s",":","/","/","a","b",".","c","o","/","p">>
P_p == <<"h","t","t","p",":","/","/","a","b",".","c","o","/","p">>
P_a == <<"h","t","t","p",":","/","/","a","b",".","c","o","/","a">>
H_q == <<"h","t","t","p","s",":","/","/","a","b",".","c","o","/","q">>
P_q == <<"h","t","t","p",":","/","/","a","b",".","c","o","/","q">>
X_z == <<"h","t","t","p","s",":","/","/","x","y",".","c","o","/","z">>
X_w == <<"h","t","t","p","s",":","/","/","x","y",".","c","o","/","w">>

\* Text outside any anchor
Text(s) == [a |-> FALSE, s |-> s]

\* https://ab.co    -> /a (twice), https://xy.co/z, /p.png, #top,
\*                     https://www.ab.co/, http://ab.co/p, https://ab.co/p;
\*                     its text names https://xy.co/w and https://ab.co/a
\* https://ab.co/a  -> /, #x, https://www.ab.co/a, /a, http://ab.co/a,
\*                     mailto:a@xy.co, /g.jpeg
\* https://ab.co/p and http://ab.co/p -> /q, /p, http://ab.co/p, /f.txt
\* http://ab.co/a, https://ab.co/q and http://ab.co/q hold no link.
\* https://ab.co/a may fail transiently.
SiteLinks ==
  [pages |-> (Root :> <<A(<<"/","a">>), A(<<"/","a">>), A(X_z), A(<<"/","p",".","p","n","g">>),
                        A(<<"#","t","o","p">>), A(<<"h","t","t","p","s",":","/","/","w","w","w",".","a","b",".","c","o","/">>),
                        A(P_p), A(H_p), Text(X_w), Text(H_a)>>)
          @@ (H_a :> <<A(<<"/">>), A(<<"#","x">>), A(<<"h","t","t","p","s",":","/","/","w","w","w",".","a","b",".","c","o","/","a">>),
                       A(<<"/","a">>), A(P_a), A(<<"m","a","i","l","t","o",":","a","@","x","y",".","c","o">>),
                       A(<<"/","g",".","j","p","e","g">>)>>)
          @@ (H_p :> <<A(<<"/","q">>), A(<<"/","p">>), A(P_p), A(<<"/","f",".","t","x","t">>)>>)
          @@ (P_p :> <<A(<<"/","q">>), A(<<"/","p">>), A(P_p), A(<<"/","f",".","t","x","t">>)>>)
          @@ (P_a :> <<>>)
          @@ (H_q :> <<>>)
          @@ (P_q :> <<>>),
   flaky |-> {H_a},
   garbled |-> {}]

AllFlags == BOOLEAN \X BOOLEAN \X BOOLEAN

LinkArgSet ==
  {[url |-> Root, regex_search |-> f[2], domain_filter |-> f[1],
    max_runners |-> r, max_retries |-> MaxRetries, sleep_between_retries |-> z[1],
    max_depth |-> None, assume_parent_protocol |-> f[3],
    sleep_after_request |-> z[2], concurrent_requests_limit |-> z[3]] :
     r \in 1..MaxRunners, f \in AllFlags, z \in Timings}

LinkInit == InitWith(LinkArgSet, {SiteLinks})

LinkSpec == LinkInit /\ [][Next]_vars

\* ------------------------------------------------------------------------
\* Two sites on which the order of the consumers matters: a page linked
\* through http and https links, and a page linked from two depths
\* ------------------------------------------------------------------------

U_c == <<"h","t","t","p","s",":","/","/","a","b",".","c","o","/","c">>
U_e == <<"h","t","t","p","s",":","/","/","a","b",".","c","o","/","e">>

\* root -> /a, /b;  /a -> http://ab.co/p;  /b -> https://ab.co/p;
\* https://ab.co/p and http://ab.co/p -> /q;  /q holds no link.
\* /b may fail transiently.
SiteForms ==
  [pages |-> (Root :> <<A(<<"/","a">>), A(<<"/","b">>)>>)
          @@ (U_a :> <<A(P_p)>>)
          @@ (U_b :> <<A(H_p)>>)
          @@ (H_p :> <<A(<<"/","q">>)>>)
          @@ (P_p :> <<A(<<"/","q">>)>>)
          @@ (H_q :> <<>>)
          @@ (P_q :> <<>>),
   flaky |-> {U_b},
   garbled |-> {}]

\* root -> /a, /b;  /a -> /c;  /c -> /d;  /b -> /d;  /d -> /e;  /e holds
\* no link: /d is two links from the root through /b and three through /c
SiteLate ==
  [pages |-> (Root :> <<A(<<"/","a">>), A(<<"/","b">>)>>)
          @@ (U_a :> <<A(<<"/","c">>)>>)
          @@ (U_c :> <<A(<<"/","d">>)>>)
          @@ (U_b :> <<A(<<"/","d">>)>>)
          @@ (U_d :> <<A(<<"/","e">>)>>)
          @@ (U_e :> <<>>),
   flaky |-> {},
   garbled |-> {}]

\* max_depth unset, or the distance of /e from the root of SiteLate
RaceArgSet ==
  {[url |-> Root, regex_search |-> FALSE, domain_filter |-> TRUE,
    max_runners |-> r, max_retries |-> MaxRetries, sleep_between_retries |-> z[1],
    max_depth |-> d, assume_parent_protocol |-> TRUE,
    sleep_after_request |-> z[2], concurrent_requests_limit |-> z[3]] :
     r \in 1..MaxRunners, d \in {None, Some(MaxDepth + 2)}, z \in Timings}

RaceInit == InitWith(RaceArgSet, {SiteForms, SiteLate})

RaceSpec == RaceInit /\ [][Next]_vars

\* ------------------------------------------------------------------------
\* The class Url on its own: a Url is constructed of a string, a parent and
\* a flag, then rendered
\* ------------------------------------------------------------------------

\* The strings constructed
UrlStrings ==
  {<<"/","q">>, <<"q">>, <<".","/","q">>, <<"#","f">>, <<>>,
   <<"h","t","t","p",":","/","/","a","b",".","c","o","/","q">>, <<"h","t","t","p","s",":","/","/","a","b",".","c","o","/","q">>, <<"h","t","t","p",":","/","/","w","w","w",".","a","b",".","c","o","/","q">>,
   <<"H","T","T","P",":","/","/","a","b",".","c","o","/","q">>, <<"/","/","a","b",".","c","o","/","q">>,
   <<"h","t","t","p",":","/","/","x","y",".","c","o","/","z">>, <<"h","t","t","p","s",":","/","/","x","y",".","c","o","/","z">>,
   <<"f","t","p",":","/","/","a","b",".","c","o","/","f">>, <<"m","a","i","l","t","o",":","a","@","a","b",".","c","o">>, <<"h","t","t","p",":","/","/","[">>,
   <<".","/","#","f">>, <<"s","/","q","/">>,
   <<"h","t","t","p","s",":","/","/","w","w","w",".","w","w","w",".","a","b",".","c","o">>, <<"h","t","t","p","s",":","/","/","a","b",".","c","o","/","a","/","?","/">>, <<"h","t","t","p","s",":","/","/","a","b",".","c","o","/","/","a","/","?","x","=","/","/">>}

\* The parents: none; the roots https://ab.co, http://ab.co, https://www.ab.co/d,
\* https://xy.co and ftp://ab.co; the page http://ab.co/p found at https://ab.co
\* with the flag on; the page https://ab.co/a found there with the flag off
UrlParents ==
  {None,
   Some(Url(Root, None, TRUE)),
   Some(Url(<<"h","t","t","p",":","/","/","a","b",".","c","o">>, None, TRUE)),
   Some(Url(<<"h","t","t","p","s",":","/","/","w","w","w",".","a","b",".","c","o","/","d">>, None, TRUE)),
   Some(Url(<<"h","t","t","p","s",":","/","/","x","y",".","c","o">>, None, TRUE)),
   Some(Url(<<"f","t","p",":","/","/","a","b",".","c","o">>, None, TRUE)),
   Some(Url(P_p, Some(Url(Root, None, TRUE)), TRUE)),
   Some(Url(H_a, Some(Url(Root, None, TRUE)), FALSE))}

\* No crawl is under way: the Crawler was constructed, crawl() was not called
UrlInit ==
  /\ self = Crawler([url |-> Root, regex_search |-> FALSE, domain_filter |-> TRUE,
                     max_runners |-> 1, max_retries |-> 0, sleep_between_retries |-> 0,
                     max_depth |-> None, assume_parent_protocol |-> TRUE,
                     sleep_after_request |-> 0, concurrent_requests_limit |-> None])
  /\ site = SiteLinks
  /\ crawled_urls = <<>> /\ queue = <<>> /\ unfinished_tasks = 0 /\ getters = <<>>
  /\ limit_value = 0 /\ limit_waiters = <<>> /\ limit_woken = {}
  /\ ready = <<>> /\ consumers = <<>> /\ crawl_pc = "created"
  /\ fetch_log = <<>> /\ claimed = <<>> /\ enqueued = <<>> /\ skipped = <<>>
  /\ dequeued = <<>>
  /\ stored = {} /\ completed = 0
  /\ given \in {Some([url |-> u, parent_url |-> q, use_parent_protocol |-> f]) :
                  u \in UrlStrings, q \in UrlParents, f \in BOOLEAN}
  /\ built = None /\ rendered = None
  /\ url_set = None /\ added = <<>>

\* Url(url, parent_url, use_parent_protocol)
Construct ==
  /\ given # None /\ built = None
  /\ ~UrlRaises(given[1].url)
  /\ built' = Some(Url(given[1].url, given[1].parent_url, given[1].use_parent_protocol))
  /\ UNCHANGED <<self, site, crawled_urls, queue, unfinished_tasks, getters, limit_value,
                 limit_waiters, limit_woken, ready, consumers, crawl_pc, fetch_log,
                 claimed, enqueued, skipped, dequeued, stored, completed, url_set, added, given, rendered>>

\* url.get_full_url() and url.get_basic_url()
Render ==
  /\ built # None /\ rendered = None
  /\ rendered' = Some([full |-> get_full_url(built[1]), basic |-> get_basic_url(built[1]),
                        again |-> None])
  /\ UNCHANGED <<self, site, crawled_urls, queue, unfinished_tasks, getters, limit_value,
                 limit_waiters, limit_woken, ready, consumers, crawl_pc, fetch_log,
                 claimed, enqueued, skipped, dequeued, stored, completed, url_set, added, given, built>>

\* Url(basic).get_basic_url(), of the basic URL rendered
Reparse ==
  /\ rendered # None /\ rendered[1].again = None
  /\ ~UrlRaises(rendered[1].basic)
  /\ rendered' = Some([rendered[1] EXCEPT
                         !.again = Some(get_basic_url(Url(rendered[1].basic, None, TRUE)))])
  /\ UNCHANGED <<self, site, crawled_urls, queue, unfinished_tasks, getters, limit_value,
                 limit_waiters, limit_woken, ready, consumers, crawl_pc, fetch_log,
                 claimed, enqueued, skipped, dequeued, stored, completed, url_set, added, given, built>>

UrlNext == Construct \/ Render \/ Reparse

UrlSpec == UrlInit /\ [][UrlNext]_vars

\* ------------------------------------------------------------------------
\* The construction of a Crawler, with numbers in and out of range
\* ------------------------------------------------------------------------

\* The arguments: a sleep is in tenths of a second
CrawlerArgs ==
  {[url |-> Root, regex_search |-> FALSE, domain_filter |-> TRUE,
    max_runners |-> r, max_retries |-> t, sleep_between_retries |-> z,
    max_depth |-> d, assume_parent_protocol |-> TRUE,
    sleep_after_request |-> a, concurrent_requests_limit |-> c] :
     r \in {-3, 0, 1, 2}, t \in {-3, 0, 1}, z \in {-3, 0, 5},
     d \in {None, Some(-3), Some(0), Some(1)}, a \in {-3, 0, 2},
     c \in {None, Some(-3), Some(0), Some(1)}}

\* No Crawler yet
CrawlerInit ==
  /\ self = None
  /\ site = SiteLinks
  /\ crawled_urls = <<>> /\ queue = <<>> /\ unfinished_tasks = 0 /\ getters = <<>>
  /\ limit_value = 0 /\ limit_waiters = <<>> /\ limit_woken = {}
  /\ ready = <<>> /\ consumers = <<>> /\ crawl_pc = "none"
  /\ fetch_log = <<>> /\ claimed = <<>> /\ enqueued = <<>> /\ skipped = <<>>
  /\ dequeued = <<>>
  /\ stored = {} /\ completed = 0
  /\ given \in {Some(a) : a \in CrawlerArgs}
  /\ built = None /\ rendered = None
  /\ url_set = None /\ added = <<>>

\* Crawler(url, ...): the object is there and crawl() was not called
NewCrawler ==
  /\ self = None /\ given # None
  /\ self' = Crawler(given[1])
  /\ crawl_pc' = "created"
  /\ UNCHANGED <<site, crawled_urls, queue, unfinished_tasks, getters, limit_value,
                 limit_waiters, limit_woken, ready, consumers, fetch_log,
                 claimed, enqueued, skipped, dequeued, stored, completed, url_set, added, given, built, rendered>>

CrawlerSpec == CrawlerInit /\ [][NewCrawler]_vars

\* ------------------------------------------------------------------------
\* The class UrlSet on its own: a set is created empty and Urls are added
\* ------------------------------------------------------------------------

\* The most calls of add() explored
MaxAdds == 3

\* The Urls added: three of the canonical form https://ab.co/a, two of
\* https://ab.co/p, one that is not an http(s) URL
SetUrls ==
  {Url(H_a, None, TRUE),
   Url(<<"h","t","t","p","s",":","/","/","w","w","w",".","a","b",".","c","o","/","a","/">>, None, TRUE),
   Url(P_a, Some(Url(Root, None, TRUE)), TRUE),
   Url(<<"/","p">>, Some(Url(Root, None, TRUE)), TRUE),
   Url(<<"h","t","t","p","s",":","/","/","a","b",".","c","o","/","p","#","x">>, None, TRUE),
   Url(<<"m","a","i","l","t","o",":","a","@","x","y",".","c","o">>, Some(Url(Root, None, TRUE)), TRUE)}

\* UrlSet([])
SetInit ==
  /\ self = None
  /\ site = SiteLinks
  /\ crawled_urls = <<>> /\ queue = <<>> /\ unfinished_tasks = 0 /\ getters = <<>>
  /\ limit_value = 0 /\ limit_waiters = <<>> /\ limit_woken = {}
  /\ ready = <<>> /\ consumers = <<>> /\ crawl_pc = "none"
  /\ fetch_log = <<>> /\ claimed = <<>> /\ enqueued = <<>> /\ skipped = <<>>
  /\ dequeued = <<>>
  /\ stored = {} /\ completed = 0
  /\ given = None /\ built = None /\ rendered = None
  /\ url_set = Some(UrlSet(<<>>)) /\ added = <<>>

\* url_set.add(item)
Add(item) ==
  /\ url_set # None /\ Len(added) < MaxAdds
  /\ url_set' = Some(UrlSet_add(url_set[1], item))
  /\ added' = Append(added, item)
  /\ UNCHANGED <<self, site, crawled_urls, queue, unfinished_tasks, getters, limit_value,
                 limit_waiters, limit_woken, ready, consumers, crawl_pc, fetch_log,
                 claimed, enqueued, skipped, dequeued, stored, completed, given, built, rendered>>

SetNext == \E item \in SetUrls : Add(item)

SetSpec == SetInit /\ [][SetNext]_vars

\* ------------------------------------------------------------------------
\* Properties
\* ------------------------------------------------------------------------

RootKey == get_basic_url(self.url)

Returned == crawl_pc = "returned"

\* The outcomes of the GETs of a canonical URL that have ended, in order
OutcomesOf(k) ==
  With(Lookup(fetch_log, k), LAMBDA log : [i \in 1..Len(log) |-> log[i].outcome])

LastOutcome(k) ==
  With(OutcomesOf(k), LAMBDA o : IF o = <<>> THEN "none" ELSE o[Len(o)])

AllTransport(k) ==
  \E o \in {OutcomesOf(k)} : o # <<>> /\ \A i \in 1..Len(o) : o[i] = "transport"

\* The links of a page fetched successfully at the first attempt, the links
\* to itself left out (lines 98-99)
links_of(url0) ==
  With(url0, LAMBDA url :
  With(get_basic_url(url), LAMBDA k :
    SelectSeq(get_urls_from_text(self, PageText(k), url),
              LAMBDA u : get_basic_url(u) # k)))

\* The child list stored for such a page (line 100)
basic_urls(urls0) ==
  With(urls0, LAMBDA urls : [i \in 1..Len(urls) |-> get_basic_url(urls[i])])

basic_urls_of(url) == basic_urls(links_of(url))

\* The children such a page offers to the queue: same domain as the root
\* and crawlable
candidates(urls) ==
  {get_basic_url(u) :
     u \in {c \in Range(urls) : c.domain = self.url.domain /\ is_crawlable(c)}}

\* The final child list of a claimed key whose processing has ended
FinalList(k) ==
  IF LastOutcome(k) = "ok" THEN basic_urls_of(claimed[k][1].url) ELSE <<>>

EnqueuedBy(k) == {i \in 1..Len(enqueued) : enqueued[i].parent = Some(k)}

Copies(k) == Cardinality({i \in 1..Len(enqueued) : enqueued[i].key = k})

InQueue(k) == Cardinality({i \in 1..Len(queue) : get_basic_url(queue[i].url) = k})

Keys == {enqueued[i].key : i \in 1..Len(enqueued)}

\* C1: in every interleaving each canonical URL is claimed once, and fetched
\* only by the consumer that claimed it; of the copies of a key put in the
\* queue, the first dequeued claims it and every other copy dequeued is
\* skipped (marked done without a fetch)
C1_ClaimedAndFetchedOnce ==
  \A k \in Keys \cup DOMAIN claimed \cup DOMAIN fetch_log \cup DOMAIN skipped :
    /\ Len(Lookup(claimed, k)) <= 1
    /\ Copies(k) = InQueue(k) + Len(Lookup(claimed, k)) + Count(skipped, k)
    /\ Count(skipped, k) > 0 => Len(Lookup(claimed, k)) = 1
    /\ \A i \in 1..Len(Lookup(fetch_log, k)) :
         /\ Len(Lookup(claimed, k)) = 1
         /\ fetch_log[k][i].by = claimed[k][1].by
    /\ Len(Lookup(fetch_log, k)) <= self.max_retries + 1

\* A second copy of a key was dequeued, and skipped, while the consumer that
\* claimed the key was still fetching it
C1_Witness ==
  \E k \in DOMAIN skipped :
    /\ skipped[k] >= 1
    /\ Len(Lookup(claimed, k)) = 1
    /\ k \notin stored
    /\ self.max_runners >= 2

\* C2: once crawl() has returned, every item ever put has been dequeued and
\* marked done, no consumer holds an item, the queue is empty, and every key
\* of the result holds its final list
C2_ReturnsComplete ==
  Returned =>
    /\ queue = <<>>
    /\ completed = Len(enqueued)
    /\ \A w \in DOMAIN consumers : consumers[w].url_in_queue = None
    /\ DOMAIN crawled_urls = DOMAIN claimed
    /\ DOMAIN crawled_urls = stored
    /\ Keys = stored
    /\ \A k \in DOMAIN crawled_urls : crawled_urls[k] = FinalList(k)

\* crawl() has returned a map of several pages, one of them reached twice
C2_Witness ==
  /\ Returned
  /\ self.max_runners >= 2
  /\ Cardinality(DOMAIN crawled_urls) >= 4
  /\ \E k \in DOMAIN skipped : skipped[k] >= 1
  /\ \E k \in DOMAIN crawled_urls : crawled_urls[k] # <<>>

\* C3: crawl() terminates: as long as it has not returned, some task can
\* take a step (liveness in its finite form: no state short of the return
\* is a dead end)
C3_NoDeadEnd == Returned \/ ENABLED Next

\* C4: no consumer is lost to an error raised while it processes an item
C4_NoConsumerLost == \A w \in DOMAIN consumers : consumers[w].pc # "failed"

\* C5: a page all of whose GETs fail in transport is requested
\* max_retries + 1 times, then stored with an empty list; its consumer goes
\* on, and nothing is put in the queue on its behalf
C5_TransportFailure ==
  \A k \in DOMAIN fetch_log :
    AllTransport(k) =>
      /\ k \notin stored => Len(fetch_log[k]) <= self.max_retries
      /\ k \in stored =>
           /\ Len(fetch_log[k]) = self.max_retries + 1
           /\ crawled_urls[k] = <<>>
           /\ EnqueuedBy(k) = {}
      /\ \A w \in DOMAIN consumers :
           Holding(State, w) = Some(k) => consumers[w].pc # "failed"

\* A page that failed twice, with one retry allowed, is in the result that
\* crawl() returned
C5_Witness ==
  /\ Returned
  /\ self.max_retries = 1
  /\ \E k \in stored : AllTransport(k) /\ Len(fetch_log[k]) = 2 /\ crawled_urls[k] = <<>>

\* C6: a decode failure is the last GET of its page, whatever retries are
\* left: the page is stored at once with an empty list and puts nothing in
\* the queue
C6_DecodeFailureIsFinal ==
  \A k \in DOMAIN fetch_log :
    \A i \in 1..Len(fetch_log[k]) :
      fetch_log[k][i].outcome = "decode" =>
        /\ i = Len(fetch_log[k])
        /\ k \in stored
        /\ crawled_urls[k] = <<>>
        /\ EnqueuedBy(k) = {}

\* A page was undecodable at its first GET, with a retry left, and crawl()
\* has returned
C6_Witness ==
  /\ Returned
  /\ self.max_retries >= 1
  /\ \E k \in stored : OutcomesOf(k) = <<"decode">>

\* C7: a page whose GET succeeds after transport failures is stored with the
\* list of the same page fetched at the first attempt, and offers the same
\* children to the queue: each is put by this page at the next depth, or was
\* put or claimed before
C7_RetryThenSuccess ==
  \A k \in stored :
    LastOutcome(k) = "ok" =>
      \E urls \in {links_of(claimed[k][1].url)} :
        /\ crawled_urls[k] = basic_urls(urls)
        /\ EnqueuedBy(k) # {} =>
             \E offered \in {candidates(urls)} :
               \A i \in EnqueuedBy(k) :
                 /\ enqueued[i].key \in offered
                 /\ enqueued[i].depth = claimed[k][1].depth + 1
        /\ IF under_max_depth(claimed[k][1].depth)
           THEN candidates(urls) \subseteq Keys
           ELSE EnqueuedBy(k) = {}

\* A page failed once, then succeeded, and put a child in the queue
C7_Witness ==
  \E k \in stored :
    /\ OutcomesOf(k) = <<"transport", "ok">>
    /\ crawled_urls[k] # <<>>
    /\ EnqueuedBy(k) # {}

\* C8: an item at depth d puts its children, at depth d + 1, only if
\* max_depth is unset or d < max_depth; so no item ever put is deeper than
\* max_depth
C8_DepthLimit ==
  \A i \in 1..Len(enqueued) :
    /\ self.max_depth # None => enqueued[i].depth <= self.max_depth[1]
    /\ enqueued[i].parent # None =>
         \E p \in {claimed[enqueued[i].parent[1]][1]} :
           /\ enqueued[i].depth = p.depth + 1
           /\ self.max_depth = None \/ p.depth < self.max_depth[1]

\* A page dequeued at depth max_depth = 1 has a link to a page that was
\* never put in the queue
C8_Witness ==
  /\ Returned
  /\ self.max_depth = Some(1)
  /\ \E k \in stored :
       /\ claimed[k][1].depth = 1
       /\ \E c \in Range(crawled_urls[k]) : c \notin Keys

\* C9: with max_depth = 0 only the root is ever put and fetched, and the
\* result has the root as its one key; the root's list is the one the run
\* with max_depth unset stores for the root
C9_DepthZero ==
  /\ self.max_depth = Some(0) =>
       /\ Len(enqueued) = 1
       /\ DOMAIN fetch_log \subseteq {RootKey}
       /\ DOMAIN crawled_urls \subseteq {RootKey}
       /\ Returned =>
            /\ DOMAIN crawled_urls = {RootKey}
            /\ crawled_urls[RootKey] = basic_urls_of(self.url)
  /\ (self.max_depth = None /\ RootKey \in stored /\ LastOutcome(RootKey) = "ok") =>
       crawled_urls[RootKey] = basic_urls_of(self.url)

\* crawl() has returned with max_depth = 0, the root having links
C9_Witness ==
  /\ Returned
  /\ self.max_depth = Some(0)
  /\ Len(crawled_urls[RootKey]) >= 3

\* The links of the site: the canonical URLs in the child list of a page
Links(k) ==
  IF k \in DOMAIN site.pages /\ ~ TextRaises(PageText(k))
  THEN Range(basic_urls_of(Url(k, None, TRUE)))
  ELSE {}

LinkMap == [k \in DOMAIN site.pages |-> Links(k)]

\* The canonical URLs within n link hops of the root
RECURSIVE Within(_, _)
Within(links, n) ==
  IF n = 0 THEN {RootKey}
  ELSE With(Within(links, n - 1), LAMBDA near :
         near \cup UNION {links[k] : k \in near \cap DOMAIN links})

\* The shortest discovery depth of the canonical URLs of the site
ShortestDepth(links0) ==
  With(links0, LAMBDA links :
  With([n \in 0..Cardinality(DOMAIN links) |-> Within(links, n)], LAMBDA within :
    [k \in within[Cardinality(DOMAIN links)] |->
       CHOOSE n \in DOMAIN within :
         k \in within[n] /\ \A m \in 0..(n - 1) : k \notin within[m]]))

\* C10: no item is put at a depth greater than the shortest discovery depth
\* of its canonical URL
C10_NeverDeeperThanShortest ==
  \E shortest \in {ShortestDepth(LinkMap)} :
    \A i \in 1..Len(enqueued) : enqueued[i].depth <= shortest[enqueued[i].key]

\* The consumers whose GET is in flight: issued (lines 143/145) and not yet
\* resumed with its answer
InFlight == {w \in DOMAIN consumers : consumers[w].pc \in {"request", "response"}}

\* The consumers asleep between retries or after a request
Asleep ==
  {w \in DOMAIN consumers :
     consumers[w].pc \in {"retry_sleep", "retry_wake", "request_sleep", "request_wake"}}

\* The consumers blocked in acquire() to which no permit was handed yet
Waiting == {w \in Range(limit_waiters) : w \notin limit_woken}

\* C11: when concurrent_requests_limit is set, the number of GETs in flight
\* never exceeds it, whatever max_runners is
C11_InFlightWithinLimit ==
  self.concurrent_requests_limit # None =>
    Cardinality(InFlight) <= self.concurrent_requests_limit[1]

\* the limit is reached while another consumer waits for a permit
C11_Witness ==
  /\ self.concurrent_requests_limit # None
  /\ self.max_runners > self.concurrent_requests_limit[1]
  /\ Cardinality(InFlight) = self.concurrent_requests_limit[1]
  /\ Waiting # {}

\* C12: the permits taken are exactly those of the GETs in flight and those
\* release() has handed to a waiter that is about to issue its GET; no
\* sleeping consumer holds one, so with no GET in flight and no hand-over
\* pending all permits are free, and a consumer waits for a permit only while
\* another one is going to release one
C12_PermitOnlyInFlight ==
  self.concurrent_requests_limit # None /\ crawl_pc = "join" =>
    /\ limit_woken \subseteq Range(limit_waiters)
    /\ InFlight \cap Range(limit_waiters) = {}
    /\ Asleep \cap Range(limit_waiters) = {}
    /\ limit_value + Cardinality(InFlight) + Cardinality(limit_woken)
         = self.concurrent_requests_limit[1]
    /\ InFlight = {} /\ limit_woken = {} =>
         limit_value = self.concurrent_requests_limit[1]
    /\ Waiting # {} => InFlight \cup limit_woken # {}

\* a consumer sleeps before its retry while the only permit is free again
C12_Witness ==
  /\ self.concurrent_requests_limit # None /\ crawl_pc = "join"
  /\ \E w \in DOMAIN consumers : consumers[w].pc = "retry_sleep"
  /\ InFlight = {}
  /\ limit_value = self.concurrent_requests_limit[1]

\* The Url objects line 180 builds of the anchors of the page claimed as k
AnchorUrls(k) ==
  With(claimed[k][1].url, LAMBDA parent :
    {Url(h, Some(parent), self.assume_parent_protocol) :
       h \in Range(Hrefs(PageText(k)))})

\* The canonical forms of the anchors of page k that lead to another domain
ForeignAnchors(k) ==
  {get_basic_url(u) : u \in {x \in AnchorUrls(k) : x.domain # self.url.domain}}

\* The domain a canonical URL names
DomainOf(c) == get_url_info(c).domain

\* C13: whatever domain_filter is, every item put in the queue, every key
\* claimed and every URL fetched has the domain of the root; with
\* domain_filter off the canonical form of each anchor to another domain is in
\* the child list of the page that holds it
C13_NoForeignFetch ==
  /\ \A i \in 1..Len(enqueued) :
       enqueued[i].url.domain = self.url.domain /\ DomainOf(enqueued[i].key) = self.url.domain
  /\ \A k \in DOMAIN claimed : DomainOf(k) = self.url.domain
  /\ DOMAIN fetch_log \subseteq DOMAIN claimed
  /\ ~self.domain_filter =>
       \A k \in stored :
         LastOutcome(k) = "ok" => ForeignAnchors(k) \subseteq Range(crawled_urls[k])

\* domain_filter is off, the crawl has returned: the root's list holds
\* https://xy.co/z, which was never put in the queue
C13_Witness ==
  /\ ~self.domain_filter /\ Returned
  /\ X_z \in ForeignAnchors(RootKey)
  /\ X_z \in Range(crawled_urls[RootKey])
  /\ X_z \notin Keys

\* C14: with domain_filter on, no child list holds a URL that names a domain
\* other than the root's, be it found in an anchor or by the regex scan (an
\* entry that names no domain at all, such as mailto:a@xy.co, is not one)
C14_ListsStayInDomain ==
  self.domain_filter =>
    \A k \in DOMAIN crawled_urls :
      \A c \in Range(crawled_urls[k]) : DomainOf(c) \in {self.url.domain, <<>>}

\* domain_filter and regex_search are on; the root page, which names another
\* domain in an anchor and in its text, was fetched and its list stored
C14_Witness ==
  /\ self.domain_filter /\ self.regex_search
  /\ RootKey \in stored /\ LastOutcome(RootKey) = "ok"
  /\ ForeignAnchors(RootKey) # {}
  /\ \E m \in Range(RegexMatches(PageText(RootKey))) :
       DomainOf(m) \notin {self.url.domain, <<>>} /\ m \notin ForeignAnchors(RootKey)
  /\ crawled_urls[RootKey] # <<>>

\* The endings of the URLs that are content, not pages
ContentEndings == {S_png, S_pdf, S_jpg, S_jpeg, S_txt}

HasContentEnding(c) == \E e \in ContentEndings : EndsWith(c, e)

\* The canonical forms of the anchors of page k that are valid URLs of the
\* root's domain and end as content
ContentLinks(k) ==
  {c \in {get_basic_url(u) :
            u \in {x \in AnchorUrls(k) : x.domain = self.url.domain /\ is_valid(x)}} :
     HasContentEnding(c)}

SelfAnchors(k) ==
  With(claimed[k][1].url, LAMBDA parent :
    {h \in Range(Hrefs(PageText(k))) :
       get_basic_url(Url(h, Some(parent), self.assume_parent_protocol)) = k})

\* C16: no child list holds the key it is stored under
C16_NoSelfLoop ==
  \A k \in DOMAIN crawled_urls : k \notin Range(crawled_urls[k])

\* a page that links to itself in three ways was fetched and its list, not
\* empty, was stored
C16_Witness ==
  \E k \in stored :
    /\ LastOutcome(k) = "ok"
    /\ Cardinality(SelfAnchors(k)) >= 3
    /\ crawled_urls[k] # <<>>

\* The Url objects of the anchors of page k, in the order of the page
AnchorSeq(k) ==
  With(claimed[k][1].url, LAMBDA parent :
  With(Hrefs(PageText(k)), LAMBDA hrefs :
    [i \in 1..Len(hrefs) |->
       Url(hrefs[i], Some(parent), self.assume_parent_protocol)]))

\* The canonical forms of the anchors of page k that are kept: those that do
\* not lead to k and, with domain_filter, lead to the root's domain
KeptAnchors(k) ==
  basic_urls(SelectSeq(AnchorSeq(k),
                       LAMBDA u : /\ get_basic_url(u) # k
                                  /\ self.domain_filter => u.domain = self.url.domain))

\* Whether no two elements of the sequence are equal
Distinct(s) == \A i, j \in 1..Len(s) : s[i] = s[j] => i = j

\* C17: the child list of a page holds one entry for each anchor kept, in
\* the order of the page, a link that occurs twice being listed twice (the
\* URLs found by the regex scan alone follow, once each); the processing of
\* one page puts each canonical child in the queue at most once
C17_DuplicatesKeptOnceEnqueued ==
  /\ \A k \in stored :
       LastOutcome(k) = "ok" =>
         \E kept \in {KeptAnchors(k)} :
           /\ Len(crawled_urls[k]) >= Len(kept)
           /\ SubSeq(crawled_urls[k], 1, Len(kept)) = kept
           /\ ~self.regex_search => crawled_urls[k] = kept
           /\ \E rest \in {SubSeq(crawled_urls[k], Len(kept) + 1, Len(crawled_urls[k]))} :
                Distinct(rest) /\ Range(rest) \cap Range(kept) = {}
  /\ \A k \in stored :
       \E by \in {EnqueuedBy(k)} :
         \A i, j \in by : enqueued[i].key = enqueued[j].key => i = j

\* the root's list holds https://ab.co/a twice, one after the other, and the
\* root has put it in the queue
C17_Witness ==
  /\ RootKey \in stored
  /\ Len(crawled_urls[RootKey]) >= 2
  /\ crawled_urls[RootKey][1] = H_a /\ crawled_urls[RootKey][2] = H_a
  /\ \E i \in EnqueuedBy(RootKey) : enqueued[i].key = H_a

S_https == <<"h","t","t","p","s">>

\* The flag a Url ends up with (lines 63-66): the parent's if a parent was
\* given and inheritance was asked for, else the one asked for
FlagOf(g) ==
  IF g.parent_url # None /\ g.use_parent_protocol
  THEN g.parent_url[1].use_parent_protocol ELSE g.use_parent_protocol

\* Whether the Url u constructed of g is to show its parent's protocol
Inherits(g, u) ==
  /\ g.parent_url # None
  /\ FlagOf(g)
  /\ u.domain = g.parent_url[1].domain
  /\ u.protocol = <<>> \/ StartsWith(u.protocol, S_http)

SchemePairs(k) ==
  {pair \in Range(Hrefs(PageText(k))) \X Range(Hrefs(PageText(k))) :
     /\ StartsWith(pair[1], S_http \o S_sep)
     /\ StartsWith(pair[2], S_https \o S_sep)
     /\ From(pair[1], Len(S_http)) = From(pair[2], Len(S_https))
     /\ DomainOf(pair[1]) = self.url.domain}

\* The canonical form of the href h found at the page claimed as k
CanonicalAt(k, h) ==
  get_basic_url(Url(h, Some(claimed[k][1].url), self.assume_parent_protocol))

\* C19: without assume_parent_protocol an http link and an https link to
\* the same domain and path have two canonical forms, one http and one
\* https: both are in the list of their page and, below max_depth, both are
\* put in the queue; when the crawl returns, each key put was claimed once
\* and fetched by its own GET; a link that begins with / at a page whose key
\* is http is recorded as an http URL of that page's domain
C19_SchemesApart ==
  ~self.assume_parent_protocol =>
    /\ \A k \in stored :
         LastOutcome(k) = "ok" =>
           /\ \A pair \in SchemePairs(k) :
                \E c1 \in {CanonicalAt(k, pair[1])} : \E c2 \in {CanonicalAt(k, pair[2])} :
                  /\ c1 # c2
                  /\ StartsWith(c1, S_http \o S_sep) /\ StartsWith(c2, S_https \o S_sep)
                  /\ {c1, c2} \subseteq Range(crawled_urls[k]) \cup {k}
                  /\ under_max_depth(claimed[k][1].depth) /\ ~HasContentEnding(c1)
                       => {c1, c2} \subseteq Keys
           /\ StartsWith(k, S_http \o S_sep) =>
                \A h \in Range(Hrefs(PageText(k))) :
                  Head(h) = "/" =>
                    (S_http \o S_sep \o DomainOf(k) \o h) \in Range(crawled_urls[k]) \cup {k}
    /\ Returned =>
         \A k \in Keys :
           /\ k \in DOMAIN claimed /\ Len(claimed[k]) = 1
           /\ Lookup(fetch_log, k) # <<>>

\* the crawl has returned: http://ab.co/p and https://ab.co/p were fetched,
\* each with a body, and the list of the http page holds http://ab.co/q
C19_Witness ==
  /\ ~self.assume_parent_protocol /\ Returned
  /\ LastOutcome(P_p) = "ok" /\ LastOutcome(H_p) = "ok"
  /\ P_q \in Range(crawled_urls[P_p])
  /\ H_q \in Range(crawled_urls[H_p])

\* The canonical URL c without its scheme
SchemeLess(c) == From(c, Len(get_url_info(c).scheme))

\* C20: with assume_parent_protocol every key of crawled_urls has the
\* protocol of the root, and no two keys differ in the scheme only
C20_KeysHaveRootProtocol ==
  self.assume_parent_protocol =>
    /\ \A k \in DOMAIN crawled_urls :
         get_url_info(k).scheme = get_url_info(RootKey).scheme
    /\ \A k1, k2 \in DOMAIN crawled_urls :
         SchemeLess(k1) = SchemeLess(k2) => k1 = k2

\* C21: the construction stores max_runners <= 0 as 1, max_retries < 0 as 0,
\* sleep_between_retries < 0 as 0.3, max_depth < 0 as 0, sleep_after_request
\* < 0 as 0 and concurrent_requests_limit <= 0 as unset, and every number in
\* range as given
C21_Clamped ==
  (self # None /\ given # None) =>
    \E a \in {given[1]} :
      /\ IF a.max_runners <= 0 THEN self.max_runners = 1
         ELSE self.max_runners = a.max_runners
      /\ IF a.max_retries < 0 THEN self.max_retries = 0
         ELSE self.max_retries = a.max_retries
      /\ IF a.sleep_between_retries < 0
         THEN self.sleep_between_retries = DefaultSleepBetweenRetries
         ELSE self.sleep_between_retries = a.sleep_between_retries
      /\ IF a.max_depth = None THEN self.max_depth = None
         ELSE IF a.max_depth[1] < 0 THEN self.max_depth = Some(0)
         ELSE self.max_depth = a.max_depth
      /\ IF a.sleep_after_request < 0 THEN self.sleep_after_request = 0
         ELSE self.sleep_after_request = a.sleep_after_request
      /\ IF a.concurrent_requests_limit = None \/ a.concurrent_requests_limit[1] <= 0
         THEN self.concurrent_requests_limit = None
         ELSE self.concurrent_requests_limit = a.concurrent_requests_limit

\* a Crawler constructed of numbers that are all out of range
C21_Witness ==
  /\ self # None /\ given # None
  /\ given[1].max_runners = 0 /\ given[1].max_retries < 0
  /\ given[1].sleep_between_retries < 0 /\ given[1].max_depth = Some(-3)
  /\ given[1].sleep_after_request < 0 /\ given[1].concurrent_requests_limit = Some(0)
  /\ self.max_runners = 1 /\ self.max_depth = Some(0)

\* The path and the domain of the parent a Url was constructed with
ParentPathOf(g) == IF g.parent_url = None THEN <<>> ELSE g.parent_url[1].path

ParentDomainOf(g) == IF g.parent_url = None THEN <<>> ELSE g.parent_url[1].domain

\* Whether the string is a reference to a fragment of the parent
FragmentReference(url) == StartsWith(url, S_hash) \/ StartsWith(url, S_dotslashhash)

\* The path the rules of resolution give to the string of g, before the
\* ending is tidied
ResolvedPath(g) ==
  With(get_url_info(g.url), LAMBDA info :
    IF info.domain # <<>> /\ info.domain # ParentDomainOf(g) THEN info.path
    ELSE IF FragmentReference(g.url) THEN ParentPathOf(g)
    ELSE IF StartsWith(info.path, S_dotslash) THEN ParentPathOf(g) \o From(info.path, 1)
    ELSE IF info.path # <<>> /\ Head(info.path) # "/"
         THEN ParentPathOf(g) \o S_slash \o info.path
    ELSE info.path)

\* C22: the path of a Url whose domain is empty or the parent's is
\* parent path + path[1:] for './...', parent path + '/' + path for a path
\* that does not begin with '/', the path itself if it begins with '/', and
\* the parent's path for a string that begins with '#' or './#' (the fragment
\* is kept apart and shows in get_full_url(), not in an http(s) basic URL); the
\* path of a Url of another domain is its own; in each case with the ending
\* tidied by _refactor_ending
C22_PathResolution ==
  rendered # None =>
    \E g \in {given[1]} : \E u \in {built[1]} :
      /\ u.path = refactor_ending(ResolvedPath(g))
      /\ FragmentReference(g.url) =>
           /\ u.path = ParentPathOf(g)
           /\ u.fragment # <<>> =>
                /\ EndsWith(rendered[1].full, <<"/", "#">> \o u.fragment)
                /\ StartsWith(rendered[1].basic, S_http) => "#" \notin Range(rendered[1].basic)
      /\ (u.domain # ParentDomainOf(g) /\ g.parent_url # None) =>
           u.path = refactor_ending(get_url_info(g.url).path)

\* '#f' found at https://www.ab.co/d: the path is /d, the fragment shows in
\* the full URL only
C22_Witness ==
  /\ rendered # None
  /\ given[1].url = <<"#","f">>
  /\ given[1].parent_url # None /\ given[1].parent_url[1].path = <<"/","d">>
  /\ built[1].path = <<"/","d">>
  /\ rendered[1].basic = <<"h","t","t","p","s",":","/","/","a","b",".","c","o","/","d">>
  /\ rendered[1].full = <<"h","t","t","p","s",":","/","/","w","w","w",".","a","b",".","c","o","/","d","/","#","f">>

\* C23: the basic URL of Url(u), constructed again without a parent, has the
\* same basic URL
C23_BasicUrlIdempotent ==
  (rendered # None /\ given[1].parent_url = None /\ rendered[1].again # None) =>
    rendered[1].again[1] = rendered[1].basic

\* The place in added of the first Url of the canonical form k
FirstAdded(k) ==
  CHOOSE j \in 1..Len(added) :
    /\ get_basic_url(added[j]) = k
    /\ \A i \in 1..(j - 1) : get_basic_url(added[i]) # k

\* C24: after any calls of add(), the keys are the canonical forms of the
\* Urls added, each once, in the order in which each was first added, and
\* the value of a key is the first Url added of that canonical form
C24_FirstSeenWins ==
  url_set # None =>
    \E items \in {url_set[1]} : \E keys \in {UrlSet_keys(url_set[1])} :
      /\ Range(keys) = {get_basic_url(added[j]) : j \in 1..Len(added)}
      /\ \A i, j \in 1..Len(keys) : keys[i] = keys[j] => i = j
      /\ \A i \in 1..Len(items) : items[i] = added[FirstAdded(keys[i])]
      /\ \A i, j \in 1..Len(items) :
           i < j => FirstAdded(keys[i]) < FirstAdded(keys[j])

\* three Urls added, the first and the last of one canonical form but not
\* the same Url: two entries, the first Url kept
C24_Witness ==
  /\ url_set # None /\ Len(added) = 3
  /\ get_basic_url(added[1]) = get_basic_url(added[3])
  /\ added[1] # added[3]
  /\ get_basic_url(added[2]) # get_basic_url(added[1])
  /\ Len(url_set[1]) = 2 /\ url_set[1][1] = added[1]

\* C25: the domain of a Url never begins with 'www.'
C25_DomainWithoutWww ==
  built # None => ~StartsWith(built[1].domain, S_www)

\* C26: the path of a Url, with its query and after it was joined to the
\* parent's, never ends in '/' and never contains '//'
C26_PathTidy ==
  built # None =>
    ~EndsWith(built[1].path, S_slash) /\ ~Contains(built[1].path, S_dslash)

\* https://ab.co//a/?x=// found at a page with a path: the path is /a/?x=
C26_Witness ==
  /\ built # None
  /\ given[1].url = <<"h","t","t","p","s",":","/","/","a","b",".","c","o","/","/","a","/","?","x","=","/","/">>
  /\ given[1].parent_url # None /\ given[1].parent_url[1].path # <<>>
  /\ built[1].path = <<"/","a","/","?","x","=">>

\* crawl() up to join() with one consumer instead of self.max_runners
StartAlone ==
  [crawled_urls |-> <<>>,
   queue |-> <<[url |-> self.url, depth |-> 0]>>,
   unfinished_tasks |-> 1, getters |-> <<>>,
   limit_value |-> IF self.concurrent_requests_limit # None
                   THEN self.concurrent_requests_limit[1] ELSE 0,
   limit_waiters |-> <<>>, limit_woken |-> {},
   ready |-> <<>>, consumers |-> [w \in {1} |-> Idle], crawl_pc |-> "join",
   fetch_log |-> <<>>, claimed |-> <<>>,
   enqueued |-> <<[key |-> get_basic_url(self.url), url |-> self.url, depth |-> 0,
                   parent |-> None]>>,
   skipped |-> <<>>, dequeued |-> <<>>, stored |-> {}, completed |-> 0, current |-> 1]

\* The map a single consumer leaves when each of its GETs returns the page:
\* its run from the state S0 to the end; None if it asks for a URL that is
\* no page of the site
RECURSIVE AloneFrom(_)
AloneFrom(S0) ==
  With(S0, LAMBDA S :
    IF S.consumers[1].pc = "request"
    THEN IF get_basic_url(S.consumers[1].url_in_queue[1]) \in DOMAIN site.pages
         THEN AloneFrom(get_returns(S, 1, "ok"))
         ELSE None
    ELSE IF S.consumers[1].pc = "request_sleep"
         THEN AloneFrom(process_urls(S, 1, S.consumers[1].urls))
         ELSE Some(S.crawled_urls))

MapOfOneRunner == AloneFrom(queue_processor(StartAlone, 1))

\* Every GET of the run returned the page
AllFetchesOk ==
  \A k \in DOMAIN fetch_log : \A i \in 1..Len(fetch_log[k]) : fetch_log[k][i].outcome = "ok"

\* C27: on a site whose GETs all return the page, the map crawl() returns
\* is the one a single consumer produces, whatever the number of consumers
\* and the order in which they run
C27_SameMapInEveryRun ==
  (Returned /\ AllFetchesOk) =>
    \E alone \in {MapOfOneRunner} : alone # None => crawled_urls = alone[1]


\* The links of the pages this run has fetched: a page whose GET did not
\* return it hands on no link
FetchedLinkMap ==
  [k \in DOMAIN site.pages |->
     IF k \in stored /\ LastOutcome(k) = "ok" THEN Links(k) ELSE {}]

\* max_depth, or the number of pages when it is unset
Hops == IF self.max_depth # None THEN self.max_depth[1] ELSE Cardinality(DOMAIN site.pages)

\* The map has a key for the page of u, under http or https
IsKey(u) ==
  \E c \in DOMAIN crawled_urls :
    \E v \in {Url(c, None, TRUE)} : v.domain = u.domain /\ v.path = u.path

\* C28: when crawl() has returned, every crawlable URL of the root's domain
\* within max_depth links of the root, through pages that were fetched, is
\* a key of the map
C28_CoveredToDepth ==
  Returned =>
    \A k \in Within(FetchedLinkMap, Hops) :
      \E u \in {Url(k, None, TRUE)} :
        (is_crawlable(u) /\ u.domain = self.url.domain) => IsKey(u)

\* The links of the map crawl() holds: a key's list as a set
MapLinks == [k \in DOMAIN crawled_urls |-> Range(crawled_urls[k])]

\* C29: with max_runners = 1 the depths of the items get() returns never
\* decrease, and when crawl() has returned every key was claimed at its
\* shortest distance from the root through the lists of the map
C29_BreadthFirstAlone ==
  self.max_runners = 1 =>
    /\ \A i, j \in 1..Len(dequeued) : i <= j => dequeued[i] <= dequeued[j]
    /\ Returned =>
         \E shortest \in {ShortestDepth(MapLinks)} :
           \A k \in DOMAIN claimed :
             k \in DOMAIN shortest /\ claimed[k][1].depth = shortest[k]

\* One consumer has crawled the site where /d is linked from depths 1 and 2:
\* both copies of /d were returned by get(), after /c, and /d was claimed at
\* depth 2, /e at depth 3
C29_Witness ==
  /\ Returned /\ self.max_runners = 1 /\ site = SiteLate
  /\ dequeued = <<0, 1, 1, 2, 2, 3, 3>>
  /\ claimed[U_d][1].depth = 2 /\ claimed[U_e][1].depth = 3

\* join() has been woken and crawl() is the task about to run: it will
\* cancel the consumers (lines 83-85)
JoinCompletes == IsNext(Main) /\ crawl_pc = "join"

\* C30: when join() completes, the queue is empty and every consumer is
\* blocked in get() holding no item: none has a GET in flight, sleeps before
\* a retry or after a request, waits for a permit, or has died; every key
\* claimed has its list stored
C30_CancelledIdle ==
  JoinCompletes =>
    /\ queue = <<>>
    /\ \A w \in Workers : consumers[w] = Idle /\ w \in Range(getters)
    /\ ready = <<Main>>
    /\ limit_waiters = <<>>
    /\ DOMAIN claimed = stored

\* join() completes for two consumers that crawled four pages, one of them
\* fetched again after a failure
C30_Witness ==
  /\ JoinCompletes
  /\ self.max_runners = 2
  /\ Cardinality(stored) >= 4
  /\ \E k \in DOMAIN fetch_log :
       Len(fetch_log[k]) = 2 /\ fetch_log[k][1].outcome = "transport"
                             /\ fetch_log[k][2].outcome = "ok"
============================================================================
